---- MODULE Spec2Model ----
(***************************************************************************)
(* Model of dedalus/core/problems.py: the conflict-free Namespace and the  *)
(* equation / boundary-condition pipeline of the four problem variants     *)
(* (initial-value, linear and nonlinear boundary-value, eigenvalue).       *)
(*                                                                         *)
(* Symbolic values (fields, scalars, operator classes, expression trees)   *)
(* are triples <<tag, name, args>>; args is the sequence of sub-trees.     *)
(***************************************************************************)
EXTENDS Integers, Sequences, FiniteSets, TLC

VARIABLES
    ns,            \* a Namespace object handled directly by a client
    nsCopy,        \* the Namespace returned by the last ns.copy()
    nsResult,      \* outcome of the last operation on ns
    kind,          \* problem variant: "IVP", "LBVP", "NLBVP", "EVP"
    variables,     \* ProblemBase.variables
    bases,         \* ProblemBase.domain.bases
    meta,          \* ProblemBase.meta[var][axis][key]
    parameters,    \* ProblemBase.parameters (ordered)
    substitutions, \* ProblemBase.substitutions (ordered)
    cache,         \* the CachedAttribute slot of ProblemBase.namespace
    eqs,           \* ProblemBase.equations
    bcs,           \* ProblemBase.boundary_conditions
    result,        \* outcome of the last add_equation / add_bc call
    calls          \* number of client calls made on the problem so far

nsVars   == <<ns, nsCopy, nsResult>>
probVars == <<kind, variables, bases, meta, parameters, substitutions,
              cache, eqs, bcs, result, calls>>
vars     == <<ns, nsCopy, nsResult, kind, variables, bases, meta, parameters,
              substitutions, cache, eqs, bcs, result, calls>>

(***************************************************************************)
(* Bounds of the exploration.                                              *)
(***************************************************************************)
MaxNsOps == 4      \* operations applied to the client-held Namespace
MaxCalls == 3      \* client calls made on one problem

(***************************************************************************)
(* Symbolic values.                                                        *)
(***************************************************************************)
Leaf(tag, name) == <<tag, name, <<>>>>
Node(tag, name, args) == <<tag, name, args>>
Tag(e)  == e[1]
Name(e) == e[2]
Args(e) == e[3]

Num(n)    == Leaf("num", n)
Field(n)  == Leaf("field", n)
Scalar(n) == Leaf("scalar", n)
OpClass(n) == Leaf("opclass", n)
Grid(n)   == Leaf("grid", n)
Builtin(n) == Leaf("builtin", n)
Add(a, b) == Node("add", "", <<a, b>>)
Mul(a, b) == Node("mul", "", <<a, b>>)
Apply(op, a) == Node("op", op, <<a>>)

\* Raw (textual) syntax: what the Python parser sees in an equation string.
RName(n)    == Leaf("name", n)
RNum(n)     == Leaf("lit", n)
RCall(f, a) == Node("call", f, <<a>>)
RAdd(a, b)  == Node("plus", "", <<a, b>>)
RSub(a, b)  == Node("minus", "", <<a, b>>)
RMul(a, b)  == Node("times", "", <<a, b>>)

\* str.isidentifier() on the strings the model uses as names.
NonIdentifiers == {"2x", "a b", ""}
IsIdentifier(key) == key \notin NonIdentifiers

(***************************************************************************)
(* Namespace(OrderedDict): items is the ordered sequence of bindings.      *)
(***************************************************************************)
Binding(key, value) == [key |-> key, value |-> value]

Namespace_init == [items |-> <<>>, allow_overwrites |-> TRUE]

NsKeys(n) == {n.items[i].key : i \in 1..Len(n.items)}
NsHas(n, key) == key \in NsKeys(n)
NsIndex(n, key) == CHOOSE i \in 1..Len(n.items) : n.items[i].key = key
NsGet(n, key) == n.items[NsIndex(n, key)].value

\* OrderedDict.__setitem__: an existing key keeps its position and gets the
\* new value; a new key is appended.
OrderedDict_setitem(items, key, value) ==
    IF \E i \in 1..Len(items) : items[i].key = key
    THEN [i \in 1..Len(items) |->
            IF items[i].key = key THEN Binding(key, value) ELSE items[i]]
    ELSE Append(items, Binding(key, value))

NsOk(n)        == [ok |-> TRUE,  error |-> "none", why |-> "none", ns |-> n]
NsFail(n, why) == [ok |-> FALSE, error |-> "SymbolicParsingError", why |-> why, ns |-> n]

\* Variant: the allow_overwrites flag is not consulted.
Namespace_setitem_overwrite(n, key, value) ==
    IF ~NsHas(n, key) /\ ~IsIdentifier(key)
    THEN NsFail(n, "identifier")
    ELSE NsOk([n EXCEPT !.items = OrderedDict_setitem(n.items, key, value)])

\* Variant: the identifier test is made only when overwriting is disabled.
Namespace_setitem_unchecked(n, key, value) ==
    IF NsHas(n, key) /\ ~n.allow_overwrites
    THEN NsFail(n, "multiple")
    ELSE IF ~NsHas(n, key) /\ ~n.allow_overwrites /\ ~IsIdentifier(key)
    THEN NsFail(n, "identifier")
    ELSE NsOk([n EXCEPT !.items = OrderedDict_setitem(n.items, key, value)])

\* Variant: a key that is already bound keeps its value.
Namespace_setitem_keep(n, key, value) ==
    IF NsHas(n, key)
    THEN IF ~n.allow_overwrites THEN NsFail(n, "multiple") ELSE NsOk(n)
    ELSE IF ~IsIdentifier(key)
         THEN NsFail(n, "identifier")
         ELSE NsOk([n EXCEPT !.items = OrderedDict_setitem(n.items, key, value)])

\* Namespace.__setitem__
Namespace_setitem(n, key, value) ==
    IF NsHas(n, key)
    THEN IF ~n.allow_overwrites
         THEN NsFail(n, "multiple")
         ELSE NsOk([n EXCEPT !.items = OrderedDict_setitem(n.items, key, value)])
    ELSE IF ~IsIdentifier(key)
         THEN NsFail(n, "identifier")
         ELSE NsOk([n EXCEPT !.items = OrderedDict_setitem(n.items, key, value)])

\* MutableMapping.update: one __setitem__ per binding, in order, stopping at
\* the first one that raises (the earlier bindings stay).
RECURSIVE Namespace_update(_, _)
Namespace_update(n, items) ==
    IF items = <<>> THEN NsOk(n)
    ELSE LET Rest(r) == IF r.ok THEN Namespace_update(r.ns, Tail(items)) ELSE r
         IN  Rest(Namespace_setitem(n, Head(items).key, Head(items).value))

\* Namespace.copy
Namespace_copy(n) ==
    LET Flagged(r) == [r EXCEPT !.ns = [r.ns EXCEPT !.allow_overwrites =
                                          IF r.ok THEN n.allow_overwrites ELSE @]]
    IN  Flagged(Namespace_update(Namespace_init, n.items))

(***************************************************************************)
(* Evaluation of raw text in a namespace (Operand.parse, FutureField.parse *)
(* and the eval of add_substitutions): names resolve to the values bound   *)
(* in the namespace, calls apply the bound operator class, and arithmetic  *)
(* builds operator trees.  a - b is built as a + (-1)*b.                   *)
(***************************************************************************)
EvalOk(e) == [ok |-> TRUE, expr |-> e]
EvalFail  == [ok |-> FALSE, expr |-> Leaf("none", "")]

IsCallable(v) == Tag(v) \in {"opclass", "builtin"}

RECURSIVE Eval(_, _)
Eval(raw, n) ==
    CASE Tag(raw) = "lit"  -> EvalOk(Num(Name(raw)))
      [] Tag(raw) = "name" ->
            IF NsHas(n, Name(raw)) THEN EvalOk(NsGet(n, Name(raw))) ELSE EvalFail
      [] Tag(raw) = "call" ->
            LET Call(f, a) ==
                    IF ~NsHas(n, f) \/ ~a.ok THEN EvalFail
                    ELSE IF ~IsCallable(NsGet(n, f)) THEN EvalFail
                    ELSE EvalOk(Apply(Name(NsGet(n, f)), a.expr))
            IN  Call(Name(raw), Eval(Args(raw)[1], n))
      [] OTHER ->
            LET Binary(op, a, b) ==
                    IF ~a.ok \/ ~b.ok THEN EvalFail
                    ELSE CASE op = "plus"  -> EvalOk(Add(a.expr, b.expr))
                           [] op = "minus" -> EvalOk(Add(a.expr, Mul(Num("-1"), b.expr)))
                           [] OTHER        -> EvalOk(Mul(a.expr, b.expr))
            IN  Binary(Tag(raw), Eval(Args(raw)[1], n), Eval(Args(raw)[2], n))

\* parsing.lambdify_functions(call, result) for a call signature without
\* arguments: the head is the signature itself and the text is the result.
lambdify_functions(sub) == [head |-> sub.call, func |-> sub.body]

\* Variant: every entry is evaluated in the namespace the call started with.
RECURSIVE AddSubstitutionsFrom(_, _, _)
AddSubstitutionsFrom(n0, n, subs) ==
    IF subs = <<>> THEN NsOk(n)
    ELSE LET Rest(r) == IF r.ok THEN AddSubstitutionsFrom(n0, r.ns, Tail(subs)) ELSE r
             Bind(head, v) ==
                 IF ~v.ok THEN [NsFail(n, "eval") EXCEPT !.error = "NameError"]
                 ELSE Rest(Namespace_setitem(n, head, v.expr))
             Each(lf) == Bind(lf.head, Eval(lf.func, n0))
         IN  Each(lambdify_functions(Head(subs)))

Namespace_add_substitutions_initial(n, subs) == AddSubstitutionsFrom(n, n, subs)

\* Namespace.add_substitutions: in insertion order, evaluate in the current
\* namespace and bind under the head; the first failure stops the loop and
\* the bindings made so far stay.
RECURSIVE Namespace_add_substitutions(_, _)
Namespace_add_substitutions(n, subs) ==
    IF subs = <<>> THEN NsOk(n)
    ELSE LET Rest(r) == IF r.ok THEN Namespace_add_substitutions(r.ns, Tail(subs))
                        ELSE r
             Bind(head, v) ==
                 IF ~v.ok THEN [NsFail(n, "eval") EXCEPT !.error = "NameError"]
                 ELSE Rest(Namespace_setitem(n, head, v.expr))
             Each(lf) == Bind(lf.head, Eval(lf.func, n))
         IN  Each(lambdify_functions(Head(subs)))

(***************************************************************************)
(* Operand algebra consumed by the problem classes: dependency test,       *)
(* polynomial order, splitting, replacement, expansion into terms and the  *)
(* canonical linear form.  vs is a set of leaves (fields, scalars) and     *)
(* operator classes.                                                       *)
(***************************************************************************)
IsLeaf(e) == Tag(e) \notin {"add", "mul", "op"}

Max2(a, b) == IF a >= b THEN a ELSE b

\* Operand.has(*vars)
RECURSIVE has(_, _)
has(e, vs) ==
    CASE IsLeaf(e)       -> e \in vs
      [] Tag(e) = "op"   -> OpClass(Name(e)) \in vs \/ has(Args(e)[1], vs)
      [] OTHER           -> has(Args(e)[1], vs) \/ has(Args(e)[2], vs)

\* Operand.order(*vars): sums add by maximum, products by sum, and an
\* application of a listed operator adds one.
RECURSIVE order(_, _)
order(e, vs) ==
    CASE IsLeaf(e)       -> IF e \in vs THEN 1 ELSE 0
      [] Tag(e) = "op"   -> order(Args(e)[1], vs)
                            + (IF OpClass(Name(e)) \in vs THEN 1 ELSE 0)
      [] Tag(e) = "add"  -> Max2(order(Args(e)[1], vs), order(Args(e)[2], vs))
      [] OTHER           -> order(Args(e)[1], vs) + order(Args(e)[2], vs)

\* Operand.replace(old, new): new is a value, or "identity" for the
\* function lambda x: x applied to the argument of a replaced operator.
RECURSIVE replace(_, _, _)
replace(e, old, new) ==
    CASE IsLeaf(e)       -> IF e = old THEN new ELSE e
      [] Tag(e) = "op"   ->
            IF OpClass(Name(e)) = old
            THEN replace(Args(e)[1], old, new)
            ELSE Apply(Name(e), replace(Args(e)[1], old, new))
      [] OTHER           ->
            Node(Tag(e), "", <<replace(Args(e)[1], old, new),
                               replace(Args(e)[2], old, new)>>)

\* Operand.expand: the add-free terms of an expression, products and
\* (linear) operators distributed over sums, in textual order.
RECURSIVE Terms(_)
Terms(e) ==
    CASE IsLeaf(e)       -> <<e>>
      [] Tag(e) = "add"  -> Terms(Args(e)[1]) \o Terms(Args(e)[2])
      [] Tag(e) = "op"   ->
            LET ts == Terms(Args(e)[1])
            IN  [i \in 1..Len(ts) |-> Apply(Name(e), ts[i])]
      [] OTHER           ->
            LET ta == Terms(Args(e)[1])
                tb == Terms(Args(e)[2])
            IN  [k \in 1..(Len(ta) * Len(tb)) |->
                    Mul(ta[((k - 1) \div Len(tb)) + 1], tb[((k - 1) % Len(tb)) + 1])]

RECURSIVE SumOf(_)
SumOf(ts) ==
    IF ts = <<>> THEN Num("0")
    ELSE IF Len(ts) = 1 THEN ts[1]
    ELSE Add(SumOf(SubSeq(ts, 1, Len(ts) - 1)), ts[Len(ts)])

RECURSIVE SelectTerms(_, _, _)
SelectTerms(ts, vs, want) ==
    IF ts = <<>> THEN <<>>
    ELSE (IF has(Head(ts), vs) = want THEN <<Head(ts)>> ELSE <<>>)
         \o SelectTerms(Tail(ts), vs, want)

\* Operand.split(x): (sum of the terms that contain x, sum of the others).
split(e, x) ==
    <<SumOf(SelectTerms(Terms(e), {x}, TRUE)),
      SumOf(SelectTerms(Terms(e), {x}, FALSE))>>

IsZero(e) == e = Num("0")

\* Operand.canonical_linear_form(*vars) after expand(*vars): the terms
\* grouped by the variable they act on, in the order of vars; a nonzero
\* term that is not of first order in vars has no linear form.
RECURSIVE GroupByVar(_, _)
GroupByVar(ts, vseq) ==
    IF vseq = <<>> THEN <<>>
    ELSE SelectTerms(ts, {Head(vseq)}, TRUE) \o GroupByVar(ts, Tail(vseq))

SeqRange(q) == {q[i] : i \in 1..Len(q)}

HasLinearForm(e, vseq) ==
    \A i \in 1..Len(Terms(e)) :
        IsZero(Terms(e)[i]) \/ order(Terms(e)[i], SeqRange(vseq)) = 1

canonical_linear_form(e, vseq) ==
    SumOf(GroupByVar(Terms(e), vseq))

(***************************************************************************)
(* The domain and the metadata of expressions.                             *)
(***************************************************************************)
Basis(name, separable) ==
    [name |-> name, separable |-> separable,
     Differentiate |-> "d" \o name, operators |-> <<"d" \o name>>]

\* Metadata(domain)[axis]: the default per-axis attributes.
MetaKeys == <<"scale", "constant", "parity">>
DefaultAxisMeta == [scale |-> 1, constant |-> FALSE, parity |-> 0]
Metadata(bs) == [axis \in 1..Len(bs) |-> DefaultAxisMeta]

ConstantMeta == [scale |-> 1, constant |-> TRUE, parity |-> 0]

AxisOfOp(bs, op) ==
    IF \E a \in 1..Len(bs) : bs[a].Differentiate = op
    THEN CHOOSE a \in 1..Len(bs) : bs[a].Differentiate = op
    ELSE 0

\* Metadata of an expression along one axis, propagated from its leaves:
\* fields carry the problem's metadata, numbers and scalars are constant
\* with unconstrained parity, a sum is constant when both terms are and
\* keeps a common parity, a product multiplies the constrained parities,
\* and a derivative along the axis flips the parity.
RECURSIVE ExprMeta(_, _, _, _)
ExprMeta(e, axis, m, bs) ==
    CASE Tag(e) = "field" -> m[Name(e)][axis]
      [] Tag(e) = "pert"  -> m[Name(Args(e)[1])][axis]
      [] Tag(e) = "grid"  ->
            [scale |-> 1, constant |-> bs[axis].name # Name(e), parity |-> 0]
      [] Tag(e) = "op"    ->
            LET a == ExprMeta(Args(e)[1], axis, m, bs)
            IN  IF AxisOfOp(bs, Name(e)) = axis
                THEN [a EXCEPT !.parity = 0 - a.parity]
                ELSE a
      [] Tag(e) = "add"   ->
            LET a == ExprMeta(Args(e)[1], axis, m, bs)
                b == ExprMeta(Args(e)[2], axis, m, bs)
            IN  [scale    |-> a.scale,
                 constant |-> a.constant /\ b.constant,
                 parity   |-> IF a.parity = b.parity THEN a.parity ELSE 0]
      [] Tag(e) = "mul"   ->
            LET a == ExprMeta(Args(e)[1], axis, m, bs)
                b == ExprMeta(Args(e)[2], axis, m, bs)
            IN  [scale    |-> b.scale,
                 constant |-> a.constant /\ b.constant,
                 parity   |-> IF a.parity = 0 THEN b.parity
                              ELSE IF b.parity = 0 THEN a.parity
                              ELSE a.parity * b.parity]
      [] OTHER            -> ConstantMeta

(***************************************************************************)
(* Problem construction parameters.                                        *)
(***************************************************************************)
Kinds == {"IVP", "LBVP", "NLBVP", "EVP"}
TimeLabel == "t"            \* InitialValueProblem(time='t')
EigenvalueLabel == "sigma"  \* EigenvalueProblem(eigenvalue=...)
PertMarker == "δ"
Parseables == <<"sin">>     \* operators.parseables

Domains == { <<Basis("y", TRUE), Basis("x", FALSE)>> }
VariableLists == { <<"u", "v">> }

(***************************************************************************)
(* ProblemBase.namespace and the variants' additions.                      *)
(***************************************************************************)
RECURSIVE BasisBindings(_)
BasisBindings(bs) ==
    IF bs = <<>> THEN <<>>
    ELSE <<Binding(Head(bs).name, Grid(Head(bs).name))>>
         \o [i \in 1..Len(Head(bs).operators) |->
                Binding(Head(bs).operators[i], OpClass(Head(bs).operators[i]))]
         \o BasisBindings(Tail(bs))

FieldBindings(vs) == [i \in 1..Len(vs) |-> Binding(vs[i], Field(vs[i]))]

\* Operand.cast(param) with casted_param.name = name
CastParam(name, value) == Node("param", name, <<Num(value)>>)

ParamBindings(ps) ==
    [i \in 1..Len(ps) |-> Binding(ps[i].key, CastParam(ps[i].key, ps[i].value))]

BuiltinBindings == [i \in 1..Len(Parseables) |-> Binding(Parseables[i], Builtin(Parseables[i]))]

ProblemBase_namespace(vs, bs, ps, subs) ==
    LET Substituted(r) == IF r.ok THEN Namespace_add_substitutions(r.ns, subs) ELSE r
    IN  Substituted(Namespace_update(Namespace_init,
                        BasisBindings(bs) \o FieldBindings(vs) \o ParamBindings(ps)
                        \o BuiltinBindings))

Pert(var) == Node("pert", PertMarker \o var, <<Field(var)>>)

\* Variant: every perturbation is made over the first variable.
PertBindings_first(vs) ==
    [i \in 1..Len(vs) |->
        Binding(PertMarker \o vs[i], Node("pert", PertMarker \o vs[i], <<Field(vs[1])>>))]

PertBindings(vs) == [i \in 1..Len(vs) |-> Binding(PertMarker \o vs[i], Pert(vs[i]))]

InitialValueProblem_namespace(n) ==
    Namespace_update(n, <<Binding(TimeLabel, Scalar(TimeLabel)),
                          Binding("d" \o TimeLabel, OpClass("d" \o TimeLabel))>>)

NonlinearBoundaryValueProblem_namespace(n, vs) ==
    Namespace_update(n, PertBindings(vs))

EigenvalueProblem_namespace(n) ==
    Namespace_update(n, <<Binding(EigenvalueLabel, Scalar(EigenvalueLabel))>>)

\* The namespace method of the problem's class; base tells whether
\* ProblemBase.namespace (itself a cached attribute) returned.
BuildNamespace(k, vs, bs, ps, subs) ==
    LET Built(full) == [ok |-> full.ok, base |-> TRUE, ns |-> full.ns, error |-> full.error]
        Extended(base) ==
            IF ~base.ok
            THEN [ok |-> FALSE, base |-> FALSE, ns |-> base.ns, error |-> base.error]
            ELSE Built(CASE k = "IVP"   -> InitialValueProblem_namespace(base.ns)
                         [] k = "NLBVP" -> NonlinearBoundaryValueProblem_namespace(base.ns, vs)
                         [] k = "EVP"   -> EigenvalueProblem_namespace(base.ns)
                         [] OTHER       -> base)
    IN  Extended(ProblemBase_namespace(vs, bs, ps, subs))

\* CachedAttribute: the value a namespace method returns is stored on the
\* instance and returned by every later access.
NotBuilt == [built |-> FALSE, ns |-> Namespace_init]

\* Variant: the namespace is rebuilt at every access.
NamespaceAccess_uncached(c, k, vs, bs, ps, subs) ==
    LET Stored(r) == [ok |-> r.ok, ns |-> r.ns, error |-> r.error,
                      cache |-> IF r.base THEN [built |-> TRUE, ns |-> r.ns] ELSE c]
    IN  Stored(BuildNamespace(k, vs, bs, ps, subs))

\* Variant: a stored namespace that differs from a fresh build is replaced.
NamespaceAccess_rebuilt(c, k, vs, bs, ps, subs) ==
    LET Stored(r) ==
            IF c.built /\ (~r.base \/ r.ns = c.ns)
            THEN [ok |-> TRUE, ns |-> c.ns, cache |-> c, error |-> "none"]
            ELSE [ok |-> r.ok, ns |-> r.ns, error |-> r.error,
                  cache |-> IF r.base THEN [built |-> TRUE, ns |-> r.ns] ELSE c]
    IN  Stored(BuildNamespace(k, vs, bs, ps, subs))

NamespaceAccess(c, k, vs, bs, ps, subs) ==
    IF c.built THEN [ok |-> TRUE, ns |-> c.ns, cache |-> c, error |-> "none"]
    ELSE LET Stored(r) == [ok |-> r.ok, ns |-> r.ns, error |-> r.error,
                           cache |-> IF r.base THEN [built |-> TRUE, ns |-> r.ns] ELSE c]
         IN  Stored(BuildNamespace(k, vs, bs, ps, subs))

(***************************************************************************)
(* Checks.  A check yields NoError or the exception it raises.             *)
(***************************************************************************)
NoError == [error |-> "none", msg |-> "none", key |-> "none", axis |-> "none",
            names |-> {}]
Raise(error, msg, key, axis) ==
    [error |-> error, msg |-> msg, key |-> key, axis |-> axis, names |-> {}]
RaiseNames(error, msg, key, vs) ==
    [error |-> error, msg |-> msg, key |-> key, axis |-> "none",
     names |-> {Name(x) : x \in vs}]

\* The first exception raised by a sequence of checks run in order.
RECURSIVE FirstError(_)
FirstError(checks) ==
    IF checks = <<>> THEN NoError
    ELSE IF Head(checks).error # "none" THEN Head(checks)
    ELSE FirstError(Tail(checks))

\* ProblemBase._require_zero
require_zero(temp, key) ==
    IF ~IsZero(temp[key])
    THEN Raise("UnsupportedEquationError", "must be zero", key, "none")
    ELSE NoError

\* ProblemBase._require_independent
require_independent(temp, key, vs) ==
    IF has(temp[key], vs)
    THEN RaiseNames("UnsupportedEquationError", "must be independent", key, vs)
    ELSE NoError

\* Variant: orders up to two are let through.
require_first_order_second(temp, key, vs) ==
    IF order(temp[key], vs) > 2
    THEN RaiseNames("UnsupportedEquationError", "must be first-order", key, vs)
    ELSE NoError

\* ProblemBase._require_first_order: the exception, and the returned order.
require_first_order(temp, key, vs) ==
    IF order(temp[key], vs) > 1
    THEN RaiseNames("UnsupportedEquationError", "must be first-order", key, vs)
    ELSE NoError

\* Variant: the order is not returned.
require_first_order_value_none(temp, key, vs) == 0

require_first_order_value(temp, key, vs) == order(temp[key], vs)

\* One call of _require_first_order: the exception, and the set holding
\* the returned order, empty when the call raises.
require_first_order_call(temp, key, vs) ==
    [err      |-> require_first_order(temp, key, vs),
     returned |-> IF require_first_order(temp, key, vs).error = "none"
                  THEN {require_first_order_value(temp, key, vs)}
                  ELSE {}]

\* ProblemBase._check_differential_order
coupled_diffs(bs) ==
    {OpClass(bs[a].Differentiate) : a \in {b \in 1..Len(bs) : ~bs[b].separable}}

check_differential_order(temp, bs) ==
    require_first_order(temp, "LHS", coupled_diffs(bs))

\* Variant: the derivatives of every axis count towards the flag.
differential_flag_any(temp, bs) ==
    order(temp.LHS, {OpClass(bs[a].Differentiate) : a \in 1..Len(bs)}) # 0

differential_flag(temp, bs) ==
    require_first_order_value(temp, "LHS", coupled_diffs(bs)) # 0

\* Variant: differing scales are rejected.
check_meta_scale_strict(LHS_scale, RHS_scale, axisName) ==
    IF LHS_scale # RHS_scale
    THEN Raise("SymbolicParsingError", "scales do not match", "scale", axisName)
    ELSE NoError

\* ProblemBase._check_meta_scale / _check_meta_constant / _check_meta_parity
check_meta_scale(LHS_scale, RHS_scale, axisName) == NoError

check_meta_constant(LHS_constant, RHS_constant, axisName) ==
    IF LHS_constant /\ ~RHS_constant
    THEN Raise("SymbolicParsingError", "LHS is constant but RHS is nonconstant",
               "constant", axisName)
    ELSE NoError

check_meta_parity(LHS_parity, RHS_parity, axisName) ==
    IF RHS_parity # 0 /\ LHS_parity # RHS_parity
    THEN Raise("SymbolicParsingError", "parities do not match", "parity", axisName)
    ELSE NoError

check_meta_key(key, L, R, axisName) ==
    CASE key = "scale"    -> check_meta_scale(L.scale, R.scale, axisName)
      [] key = "constant" -> check_meta_constant(L.constant, R.constant, axisName)
      [] OTHER            -> check_meta_parity(L.parity, R.parity, axisName)

\* ProblemBase._check_meta_consistency: axes in order, keys in order.
check_meta_consistency(LHS, RHS, m, bs) ==
    FirstError([k \in 1..(Len(bs) * Len(MetaKeys)) |->
        LET axis == ((k - 1) \div Len(MetaKeys)) + 1
            key  == MetaKeys[((k - 1) % Len(MetaKeys)) + 1]
        IN  check_meta_key(key, ExprMeta(LHS, axis, m, bs),
                           ExprMeta(RHS, axis, m, bs), bs[axis].name)])

\* Variant: constancy is demanded along separable axes too.
check_boundary_form_all(LHS, RHS, m, bs) ==
    FirstError([ax \in 1..Len(bs) |->
        IF ~ExprMeta(LHS, ax, m, bs).constant \/ ~ExprMeta(RHS, ax, m, bs).constant
        THEN Raise("SymbolicParsingError", "Boundary condition must be constant",
                   "constant", bs[ax].name)
        ELSE NoError])

\* ProblemBase._check_boundary_form
check_boundary_form(LHS, RHS, m, bs) ==
    FirstError([ax \in 1..Len(bs) |->
        IF ~bs[ax].separable
           /\ (~ExprMeta(LHS, ax, m, bs).constant \/ ~ExprMeta(RHS, ax, m, bs).constant)
        THEN Raise("SymbolicParsingError", "Boundary condition must be constant",
                   "constant", bs[ax].name)
        ELSE NoError])

\* Variant: explicit time dependence is not looked for.
IVP_check_conditions_order_only(temp) ==
    require_first_order(temp, "LHS", {OpClass("d" \o TimeLabel)})

\* _check_conditions of the four classes
IVP_check_conditions(temp) ==
    FirstError(<<require_independent(temp, "LHS", {Scalar(TimeLabel)}),
                 require_first_order(temp, "LHS", {OpClass("d" \o TimeLabel)})>>)

NsVars(n, vs) == [i \in 1..Len(vs) |-> NsGet(n, vs[i])]
NsPerts(n, vs) == [i \in 1..Len(vs) |-> NsGet(n, PertMarker \o vs[i])]

\* Variant: the independence is demanded of the LHS.
LBVP_check_conditions_lhs(temp, n, vs) ==
    require_independent(temp, "LHS", SeqRange(NsVars(n, vs)))

LBVP_check_conditions(temp, n, vs) ==
    require_independent(temp, "RHS", SeqRange(NsVars(n, vs)))

NLBVP_check_conditions(temp) == NoError

\* Variant: the order in the eigenvalue is not looked at.
EVP_check_conditions_zero_only(temp) == require_zero(temp, "RHS")

\* Variant: the zero RHS is demanded before the order in the eigenvalue.
EVP_check_conditions_zero_first(temp) ==
    FirstError(<<require_zero(temp, "RHS"),
                 require_first_order(temp, "LHS", {Scalar(EigenvalueLabel)})>>)

EVP_check_conditions(temp) ==
    FirstError(<<require_first_order(temp, "LHS", {Scalar(EigenvalueLabel)}),
                 require_zero(temp, "RHS")>>)

check_conditions(k, temp, n, vs) ==
    CASE k = "IVP"   -> IVP_check_conditions(temp)
      [] k = "LBVP"  -> LBVP_check_conditions(temp, n, vs)
      [] k = "NLBVP" -> NLBVP_check_conditions(temp)
      [] OTHER       -> EVP_check_conditions(temp)

\* ProblemBase._check_eqn_conditions / _check_bc_conditions
check_eqn_conditions(k, temp, n, vs, m, bs) ==
    FirstError(<<check_conditions(k, temp, n, vs),
                 check_differential_order(temp, bs),
                 check_meta_consistency(temp.LHS, temp.RHS, m, bs)>>)

\* Variant: the boundary form is not checked.
check_bc_conditions_no_form(k, temp, n, vs, m, bs) ==
    FirstError(<<check_conditions(k, temp, n, vs),
                 check_differential_order(temp, bs),
                 check_meta_consistency(temp.LHS, temp.RHS, m, bs)>>)

check_bc_conditions(k, temp, n, vs, m, bs) ==
    FirstError(<<check_conditions(k, temp, n, vs),
                 check_differential_order(temp, bs),
                 check_meta_consistency(temp.LHS, temp.RHS, m, bs),
                 check_boundary_form(temp.LHS, temp.RHS, m, bs)>>)

\* The values each raise statement formats into its message; add_equation
\* and add_bc let every exception through unchanged, and hand the equation
\* index to none of the functions they call.
FormatArgs(msg) ==
    CASE msg = "must be zero"                            -> {"key"}
      [] msg \in {"must be independent", "must be first-order"} -> {"key", "names"}
      [] msg \in {"LHS is constant but RHS is nonconstant",
                  "parities do not match",
                  "Boundary condition must be constant"} -> {"basis.name"}
      [] OTHER                                           -> {}

\* The sides written in the text of a message.
TemplateSides(msg) ==
    IF msg \in {"LHS is constant but RHS is nonconstant", "parities do not match"}
    THEN {"LHS", "RHS"}
    ELSE {}

(***************************************************************************)
(* Matrix-form reduction.                                                  *)
(***************************************************************************)
\* Variant: the expression alone is returned.
prep_linear_form_bare(expr, vseq) == canonical_linear_form(expr, vseq)

\* ProblemBase._prep_linear_form: the pair (expression, vars).
prep_linear_form(expr, vseq) == <<canonical_linear_form(expr, vseq), vseq>>

\* Simplifying constructors used by symbolic differentiation.
SAdd(a, b) == IF IsZero(a) THEN b ELSE IF IsZero(b) THEN a ELSE Add(a, b)
SMul(a, b) ==
    IF IsZero(a) \/ IsZero(b) THEN Num("0")
    ELSE IF a = Num("1") THEN b
    ELSE IF b = Num("1") THEN a
    ELSE Mul(a, b)

\* Operand.sym_diff(ep)
RECURSIVE sym_diff(_, _)
sym_diff(e, ep) ==
    CASE IsLeaf(e)      -> IF e = ep THEN Num("1") ELSE Num("0")
      [] Tag(e) = "add" -> SAdd(sym_diff(Args(e)[1], ep), sym_diff(Args(e)[2], ep))
      [] Tag(e) = "mul" -> SAdd(SMul(sym_diff(Args(e)[1], ep), Args(e)[2]),
                                SMul(Args(e)[1], sym_diff(Args(e)[2], ep)))
      [] OTHER          ->
            IF IsZero(sym_diff(Args(e)[1], ep)) THEN Num("0")
            ELSE Apply(Name(e), sym_diff(Args(e)[1], ep))

\* replace(ep, 0) followed by the arithmetic of zero.
RECURSIVE SetZero(_, _)
SetZero(e, ep) ==
    CASE IsLeaf(e)      -> IF e = ep THEN Num("0") ELSE e
      [] Tag(e) = "add" -> SAdd(SetZero(Args(e)[1], ep), SetZero(Args(e)[2], ep))
      [] Tag(e) = "mul" -> SMul(SetZero(Args(e)[1], ep), SetZero(Args(e)[2], ep))
      [] OTHER          ->
            IF IsZero(SetZero(Args(e)[1], ep)) THEN Num("0")
            ELSE Apply(Name(e), SetZero(Args(e)[1], ep))

Epsilon == Scalar("__epsilon__")

\* The loops over zip(vars, perts) of NonlinearBoundaryValueProblem.
RECURSIVE ReplaceAll(_, _, _)
ReplaceAll(e, vseq, pseq) ==
    IF vseq = <<>> THEN e
    ELSE ReplaceAll(replace(e, Head(vseq), Head(pseq)), Tail(vseq), Tail(pseq))

\* Variant: only the first variable is perturbed.
Frechet_first(F, vseq, pseq) ==
    IF vseq = <<>> THEN Num("0")
    ELSE SetZero(sym_diff(replace(F, vseq[1], Add(vseq[1], Mul(Epsilon, pseq[1]))),
                          Epsilon), Epsilon)

RECURSIVE Frechet(_, _, _)
Frechet(F, vseq, pseq) ==
    IF vseq = <<>> THEN Num("0")
    ELSE LET v   == vseq[Len(vseq)]
             p   == pseq[Len(pseq)]
             dFi == SetZero(sym_diff(replace(F, v, Add(v, Mul(Epsilon, p))), Epsilon),
                            Epsilon)
         IN  SAdd(Frechet(F, SubSeq(vseq, 1, Len(vseq) - 1),
                          SubSeq(pseq, 1, Len(pseq) - 1)), dFi)

\* The expressions each class hands to _prep_linear_form.
IVP_M(temp) ==
    replace(split(temp.LHS, OpClass("d" \o TimeLabel))[1],
            OpClass("d" \o TimeLabel), "identity")
\* Variant: L is the whole LHS.
IVP_L_whole(temp) == temp.LHS
IVP_L(temp) == split(temp.LHS, OpClass("d" \o TimeLabel))[2]
\* Variant: the LHS is kept over the variables.
NLBVP_L_unperturbed(temp, n, vs) == temp.LHS

NLBVP_L(temp, n, vs) == ReplaceAll(temp.LHS, NsVars(n, vs), NsPerts(n, vs))
NLBVP_dF(temp, n, vs) == Frechet(temp.RHS, NsVars(n, vs), NsPerts(n, vs))
EVP_M(temp) ==
    replace(split(temp.LHS, Scalar(EigenvalueLabel))[1],
            Scalar(EigenvalueLabel), Num("1"))
EVP_L(temp) == split(temp.LHS, Scalar(EigenvalueLabel))[2]

\* _set_matrix_expressions of the four classes: the entries added to temp.
IVP_set_matrix_expressions(temp, n, vs) ==
    [M |-> prep_linear_form(IVP_M(temp), NsVars(n, vs)),
     L |-> prep_linear_form(IVP_L(temp), NsVars(n, vs)),
     F |-> temp.RHS]

LBVP_set_matrix_expressions(temp, n, vs) ==
    [L |-> prep_linear_form(temp.LHS, NsVars(n, vs)),
     F |-> temp.RHS]

NLBVP_set_matrix_expressions(temp, n, vs) ==
    ("L" :> prep_linear_form(NLBVP_L(temp, n, vs), NsPerts(n, vs)))
    @@ ("dF" :> prep_linear_form(NLBVP_dF(temp, n, vs), NsPerts(n, vs)))
    @@ ("F-L" :> Add(temp.RHS, Mul(Num("-1"), temp.LHS)))

EVP_set_matrix_expressions(temp, n, vs) ==
    [M |-> prep_linear_form(EVP_M(temp), NsVars(n, vs)),
     L |-> prep_linear_form(EVP_L(temp), NsVars(n, vs))]

set_matrix_expressions(k, temp, n, vs) ==
    CASE k = "IVP"   -> IVP_set_matrix_expressions(temp, n, vs)
      [] k = "LBVP"  -> LBVP_set_matrix_expressions(temp, n, vs)
      [] k = "NLBVP" -> NLBVP_set_matrix_expressions(temp, n, vs)
      [] OTHER       -> EVP_set_matrix_expressions(temp, n, vs)

\* _set_matrix_expressions raises when an expression it hands to
\* _prep_linear_form has no linear form in the given variables.
ReductionRaises(k, temp, n, vs) ==
    CASE k = "IVP"   -> ~HasLinearForm(IVP_M(temp), NsVars(n, vs))
                        \/ ~HasLinearForm(IVP_L(temp), NsVars(n, vs))
      [] k = "LBVP"  -> ~HasLinearForm(temp.LHS, NsVars(n, vs))
      [] k = "NLBVP" -> ~HasLinearForm(NLBVP_L(temp, n, vs), NsPerts(n, vs))
                        \/ ~HasLinearForm(NLBVP_dF(temp, n, vs), NsPerts(n, vs))
      [] OTHER       -> ~HasLinearForm(EVP_M(temp), NsVars(n, vs))
                        \/ ~HasLinearForm(EVP_L(temp), NsVars(n, vs))

(***************************************************************************)
(* add_equation / add_bc.                                                  *)
(***************************************************************************)
\* An equation string: its text, the number of top-level "=" signs, the
\* two substrings and their syntax.
Equation(raw, neq, rawL, rawR, lhs, rhs) ==
    [raw |-> raw, neq |-> neq, raw_LHS |-> rawL, raw_RHS |-> rawR,
     lhs |-> lhs, rhs |-> rhs]

\* parsing.split_equation
split_equation_ok(eq) == eq.neq = 1

\* ProblemBase._build_basic_dictionary
build_basic_dictionary(eq, condition) ==
    [raw_equation |-> eq.raw, raw_condition |-> condition,
     raw_LHS |-> eq.raw_LHS, raw_RHS |-> eq.raw_RHS]

Outcome(stage, err, temp, c) == [stage |-> stage, err |-> err, temp |-> temp, cache |-> c]

\* Variant: the checks are skipped.
Validate_unchecked(isBC, k, temp, n, vs, bs, m, c) ==
    LET Reduced(t3) ==
            IF ReductionRaises(k, t3, n, vs)
            THEN Outcome("reduce", Raise("LinearFormError", "no linear form", "LHS", "none"),
                         t3, c)
            ELSE Outcome("append", NoError, t3 @@ set_matrix_expressions(k, t3, n, vs), c)
    IN  Reduced(temp @@ ("differential" :> differential_flag(temp, bs)))

\* The stages of one call after both sides are parsed: checks, the
\* differential flag, reduction.
Validate(isBC, k, temp, n, vs, bs, m, c) ==
    LET Reduced(t3) ==
            IF ReductionRaises(k, t3, n, vs)
            THEN Outcome("reduce", Raise("LinearFormError", "no linear form", "LHS", "none"),
                         t3, c)
            ELSE Outcome("append", NoError, t3 @@ set_matrix_expressions(k, t3, n, vs), c)
        Checked(chk) ==
            IF chk.error # "none" THEN Outcome("check", chk, temp, c)
            ELSE Reduced(temp @@ ("differential" :> differential_flag(temp, bs)))
    IN  Checked(IF isBC THEN check_bc_conditions(k, temp, n, vs, m, bs)
                ELSE check_eqn_conditions(k, temp, n, vs, m, bs))

\* ProblemBase._build_object_forms followed by the later stages.
BuildObjectForms(eq, isBC, k, temp, vs, bs, m, ps, subs, c) ==
    LET Parsed2(acc, L, R) ==
            IF ~L.ok
            THEN Outcome("parse", Raise("SymbolicParsingError", "parse", "LHS", "none"),
                         temp, acc.cache)
            ELSE IF ~R.ok
            THEN Outcome("parse", Raise("SymbolicParsingError", "parse", "RHS", "none"),
                         temp, acc.cache)
            ELSE Validate(isBC, k, temp @@ [LHS |-> L.expr, RHS |-> R.expr],
                          acc.ns, vs, bs, m, acc.cache)
        WithNamespace(acc) ==
            IF ~acc.ok
            THEN Outcome("namespace", Raise(acc.error, "namespace", "none", "none"),
                         temp, acc.cache)
            ELSE Parsed2(acc, Eval(eq.lhs, acc.ns), Eval(eq.rhs, acc.ns))
    IN  WithNamespace(NamespaceAccess(c, k, vs, bs, ps, subs))

\* The body of add_equation (isBC = FALSE) and add_bc (isBC = TRUE) up to,
\* not including, the append.
Pipeline(eq, condition, isBC, k, vs, bs, m, ps, subs, c) ==
    IF ~split_equation_ok(eq)
    THEN Outcome("split", Raise("MalformedEquationError", "split", "none", "none"),
                 [raw_equation |-> eq.raw, raw_condition |-> condition], c)
    ELSE BuildObjectForms(eq, isBC, k, build_basic_dictionary(eq, condition),
                          vs, bs, m, ps, subs, c)

\* Variant: the record is appended as soon as both sides are parsed.
AppendRecord_early(list, out) ==
    IF out.stage \in {"check", "reduce", "append"} THEN Append(list, out.temp) ELSE list

\* Variant: the record is inserted at the front of the list.
AppendRecord_front(list, out) ==
    IF out.err.error = "none" THEN <<out.temp>> \o list ELSE list

\* self.eqs.append(temp) / self.bcs.append(temp): reached only when no
\* earlier statement of the call raised.
AppendRecord(list, out) ==
    IF out.err.error = "none" THEN Append(list, out.temp) ELSE list

CallResult(op, eq, out) ==
    [op |-> op, raw |-> eq.raw, stage |-> out.stage, error |-> out.err.error,
     msg |-> out.err.msg, key |-> out.err.key, axis |-> out.err.axis,
     names |-> out.err.names]

(***************************************************************************)
(* Inputs.                                                                 *)
(***************************************************************************)
u == RName("u")
v == RName("v")
zero == RNum("0")
dt(a) == RCall("dt", a)
dx(a) == RCall("dx", a)
dy(a) == RCall("dy", a)

Heat2      == Equation("dt(u) - dx(dx(u)) = 0", 1, "dt(u) - dx(dx(u))", "0",
                       RSub(dt(u), dx(dx(u))), zero)
Heat2Time2 == Equation("dt(u) - dx(dx(u)) - dt(dt(u)) = 0", 1,
                       "dt(u) - dx(dx(u)) - dt(dt(u))", "0",
                       RSub(RSub(dt(u), dx(dx(u))), dt(dt(u))), zero)
Heat1      == Equation("dt(u) - dx(v) = 0", 1, "dt(u) - dx(v)", "0",
                       RSub(dt(u), dx(v)), zero)
TimeDep    == Equation("t*u = 0", 1, "t*u", "0", RMul(RName("t"), u), zero)
Grad       == Equation("v - dx(u) = 0", 1, "v - dx(u)", "0", RSub(v, dx(u)), zero)
Lap2       == Equation("dx(dx(u)) = 0", 1, "dx(dx(u))", "0", dx(dx(u)), zero)
SepLap     == Equation("dy(dy(u)) + v = 0", 1, "dy(dy(u)) + v", "0",
                       RAdd(dy(dy(u)), v), zero)
UEqV       == Equation("u = v", 1, "u", "v", u, v)
UEqOne     == Equation("u = 1", 1, "u", "1", u, RNum("1"))
UEqZero    == Equation("u = 0", 1, "u", "0", u, zero)
Square     == Equation("u*u = 0", 1, "u*u", "0", RMul(u, u), zero)
Eigen      == Equation("sigma*u + dx(v) = 0", 1, "sigma*u + dx(v)", "0",
                       RAdd(RMul(RName("sigma"), u), dx(v)), zero)
Unknown    == Equation("w = 0", 1, "w", "0", RName("w"), zero)
NoEquals   == Equation("u - v", 0, "", "", u, v)
Quad       == Equation("dx(v) = u*u", 1, "dx(v)", "u*u", dx(v), RMul(u, u))
Cross      == Equation("dx(u) = u*v", 1, "dx(u)", "u*v", dx(u), RMul(u, v))
PertEq     == Equation("δu = 0", 1, "δu", "0", RName(PertMarker \o "u"), zero)
Eigen2     == Equation("sigma*sigma*u = 0", 1, "sigma*sigma*u", "0",
                       RMul(RMul(RName("sigma"), RName("sigma")), u), zero)
ParamEq    == Equation("a*u + v = 0", 1, "a*u + v", "0", RAdd(RMul(RName("a"), u), v), zero)
TwoTime    == Equation("dt(u) + dx(dt(v)) + u = 0", 1, "dt(u) + dx(dt(v)) + u", "0",
                       RAdd(RAdd(dt(u), dx(dt(v))), u), zero)

\* Equations offered to the pipeline specification, and to the one that
\* explores metadata.
Equations == {Heat2, Heat2Time2, Heat1, TimeDep, Grad, Lap2, SepLap,
              UEqOne, UEqZero, Square, Eigen, Unknown, NoEquals}
MetaEquations == {UEqV, UEqOne}
\* Equations offered to the specification that explores the reduced forms.
RedEquations == {Quad, Cross, PertEq, Eigen, Eigen2, ParamEq, Heat1, Grad,
                 UEqOne, UEqZero, TwoTime}

ParamInputs == { Binding("a", "2") }
Substitution(call, body) == [call |-> call, body |-> body]
SubstitutionInputs == { Substitution("b", RName("u")), Substitution("2x", RNum("1")) }
RedSubstitutionInputs == { Substitution("c", RName("a")), Substitution("2x", RNum("1")) }

ConstantValues == BOOLEAN
ParityValues == {-1, 0, 1}
ScaleValues == {1, 2}

NsKeyInputs == {"a", "b", "2x"}
NsValueInputs == {Num("1"), Num("2")}
NsSubstitutionInputs ==
    { <<Substitution("a", RNum("1"))>>,
      <<Substitution("c", RNum("1")), Substitution("b", RName("c"))>>,
      <<Substitution("c", RName("a")), Substitution("2x", RNum("1"))>>,
      <<Substitution("b", RName("c")), Substitution("c", RNum("2"))>> }

(***************************************************************************)
(* Initial state: a fresh Namespace() and a freshly constructed problem.   *)
(***************************************************************************)
\* The record of one operation on ns: its outcome, the namespace before
\* it, its arguments, and whether the client has assigned allow_overwrites
\* before it.
NsResult(op, r, before, key, value) ==
    [op |-> op, ok |-> r.ok, error |-> r.error, why |-> r.why,
     before |-> before, key |-> key, value |-> value,
     assigned |-> nsResult.assigned \/ nsResult.op = "allow_overwrites",
     count |-> nsResult.count + 1]

InitProblem(kinds, lists) ==
    /\ ns = Namespace_init
    /\ nsCopy = Namespace_init
    /\ nsResult = [op |-> "init", ok |-> TRUE, error |-> "none", why |-> "none",
                   before |-> Namespace_init, key |-> "none", value |-> Num("0"),
                   assigned |-> FALSE, count |-> 0]
    /\ kind \in kinds
    /\ variables \in lists
    /\ bases \in Domains
    /\ meta = [var \in SeqRange(variables) |-> Metadata(bases)]
    /\ parameters = <<>>
    /\ substitutions = <<>>
    /\ cache = NotBuilt
    /\ eqs = <<>>
    /\ bcs = <<>>
    /\ result = [op |-> "init", raw |-> "none", stage |-> "none", error |-> "none",
                 msg |-> "none", key |-> "none", axis |-> "none", names |-> {}]
    /\ calls = 0

Init == InitProblem(Kinds, VariableLists)

(***************************************************************************)
(* Operations on the client-held Namespace.                                *)
(***************************************************************************)
\* ns[key] = value
NsSet(key, value) ==
    /\ nsResult.count < MaxNsOps
    /\ LET r == Namespace_setitem(ns, key, value)
       IN  /\ ns' = r.ns
           /\ nsResult' = NsResult("set", r, ns, key, value)
    /\ UNCHANGED <<nsCopy, probVars>>

\* ns.allow_overwrites = b
NsSetAllowOverwrites(b) ==
    /\ nsResult.count < MaxNsOps
    /\ ns' = [ns EXCEPT !.allow_overwrites = b]
    /\ nsResult' = NsResult("allow_overwrites", NsOk(ns), ns, "none", Num("0"))
    /\ UNCHANGED <<nsCopy, probVars>>

\* ns.copy()
NsCopy ==
    /\ nsResult.count < MaxNsOps
    /\ LET r == Namespace_copy(ns)
       IN  /\ nsCopy' = r.ns
           /\ nsResult' = NsResult("copy", r, ns, "none", Num("0"))
    /\ UNCHANGED <<ns, probVars>>

\* ns.add_substitutions(subs)
NsAddSubstitutions(subs) ==
    /\ nsResult.count < MaxNsOps
    /\ LET r == Namespace_add_substitutions(ns, subs)
       IN  /\ ns' = r.ns
           /\ nsResult' = NsResult("add_substitutions", r, ns, "none", subs)
    /\ UNCHANGED <<nsCopy, probVars>>

(***************************************************************************)
(* Operations on the problem.                                              *)
(***************************************************************************)
\* problem.add_equation(equation)
AddEquation(eq) ==
    /\ calls < MaxCalls
    /\ \E out \in {Pipeline(eq, "True", FALSE, kind, variables, bases, meta,
                           parameters, substitutions, cache)} :
           /\ cache' = out.cache
           /\ eqs' = AppendRecord(eqs, out)
           /\ result' = CallResult("add_equation", eq, out)
    /\ calls' = calls + 1
    /\ UNCHANGED <<bcs, kind, variables, bases, meta, parameters, substitutions, nsVars>>

\* problem.add_bc(equation)
AddBC(eq) ==
    /\ calls < MaxCalls
    /\ \E out \in {Pipeline(eq, "True", TRUE, kind, variables, bases, meta,
                           parameters, substitutions, cache)} :
           /\ cache' = out.cache
           /\ bcs' = AppendRecord(bcs, out)
           /\ result' = CallResult("add_bc", eq, out)
    /\ calls' = calls + 1
    /\ UNCHANGED <<eqs, kind, variables, bases, meta, parameters, substitutions, nsVars>>

SetResult(op) ==
    [op |-> op, raw |-> "none", stage |-> "none", error |-> "none",
     msg |-> "none", key |-> "none", axis |-> "none", names |-> {}]

\* problem.meta[var][axis]['constant'] = b
SetMetaConstant(var, axis, b) ==
    /\ calls < MaxCalls
    /\ meta' = [meta EXCEPT ![var][axis].constant = b]
    /\ result' = SetResult("set_meta")
    /\ calls' = calls + 1
    /\ UNCHANGED <<eqs, bcs, cache, kind, variables, bases, parameters, substitutions, nsVars>>

\* problem.meta[var][axis]['parity'] = p
SetMetaParity(var, axis, p) ==
    /\ calls < MaxCalls
    /\ meta' = [meta EXCEPT ![var][axis].parity = p]
    /\ result' = SetResult("set_meta")
    /\ calls' = calls + 1
    /\ UNCHANGED <<eqs, bcs, cache, kind, variables, bases, parameters, substitutions, nsVars>>

\* problem.meta[var][axis]['scale'] = s
SetMetaScale(var, axis, s) ==
    /\ calls < MaxCalls
    /\ meta' = [meta EXCEPT ![var][axis].scale = s]
    /\ result' = SetResult("set_meta")
    /\ calls' = calls + 1
    /\ UNCHANGED <<eqs, bcs, cache, kind, variables, bases, parameters, substitutions, nsVars>>

\* problem.parameters[name] = value
SetParameter(p) ==
    /\ calls < MaxCalls
    /\ parameters' = OrderedDict_setitem(parameters, p.key, p.value)
    /\ result' = SetResult("set_parameter")
    /\ calls' = calls + 1
    /\ UNCHANGED <<eqs, bcs, cache, kind, variables, bases, meta, substitutions, nsVars>>

\* problem.substitutions[call] = body
SetSubstitution(sub) ==
    /\ calls < MaxCalls
    /\ substitutions' =
          IF \E i \in 1..Len(substitutions) : substitutions[i].call = sub.call
          THEN [i \in 1..Len(substitutions) |->
                  IF substitutions[i].call = sub.call THEN sub ELSE substitutions[i]]
          ELSE Append(substitutions, sub)
    /\ result' = SetResult("set_substitution")
    /\ calls' = calls + 1
    /\ UNCHANGED <<eqs, bcs, cache, kind, variables, bases, meta, parameters, nsVars>>

(***************************************************************************)
(* Specifications.                                                         *)
(***************************************************************************)
\* The problem pipeline; metadata is edited through the constant key of
\* the first variable.
Next ==
    \/ \E eq \in Equations : AddEquation(eq)
    \/ \E eq \in Equations : AddBC(eq)
    \/ \E axis \in 1..Len(bases), b \in ConstantValues :
          SetMetaConstant(variables[1], axis, b)
    \/ \E p \in ParamInputs : SetParameter(p)
    \/ \E sub \in SubstitutionInputs : SetSubstitution(sub)

Spec == Init /\ [][Next]_vars

\* Metadata edited freely, and equations whose two sides are plain fields
\* or numbers.
NextMeta ==
    \/ \E eq \in MetaEquations : AddEquation(eq)
    \/ \E eq \in MetaEquations : AddBC(eq)
    \/ \E var \in SeqRange(variables), axis \in 1..Len(bases), b \in ConstantValues :
          SetMetaConstant(var, axis, b)
    \/ \E var \in SeqRange(variables), axis \in 1..Len(bases), p \in ParityValues :
          SetMetaParity(var, axis, p)
    \/ \E var \in SeqRange(variables), axis \in 1..Len(bases), sc \in ScaleValues :
          SetMetaScale(var, axis, sc)

SpecMeta == Init /\ [][NextMeta]_vars

\* The reduced forms of the four variants: right-hand sides that depend on
\* the variables, the eigenvalue at first and second order, a parameter, and
\* a substitution that reads a parameter.
NextRed ==
    \/ \E eq \in RedEquations : AddEquation(eq)
    \/ \E eq \in RedEquations : AddBC(eq)
    \/ \E p \in ParamInputs : SetParameter(p)
    \/ \E sub \in RedSubstitutionInputs : SetSubstitution(sub)

SpecRed == Init /\ [][NextRed]_vars

\* Expressions of known order handed to _require_first_order: the
\* expression, the variables or operators, and the order by construction.
OrderInput(e, vs, known) == [expr |-> e, vars |-> vs, known |-> known]
OrderInputs ==
    { OrderInput(Num("1"), {Field("v")}, 0),
      OrderInput(Field("u"), {Field("v")}, 0),
      OrderInput(Apply("dx", Field("u")), {Field("v")}, 0),
      OrderInput(Field("v"), {Field("v")}, 1),
      OrderInput(Add(Field("v"), Num("1")), {Field("v")}, 1),
      OrderInput(Mul(Field("u"), Field("v")), {Field("v")}, 1),
      OrderInput(Apply("dx", Field("v")), {Field("v")}, 1),
      OrderInput(Mul(Field("v"), Field("v")), {Field("v")}, 2),
      OrderInput(Add(Field("v"), Mul(Field("v"), Field("v"))), {Field("v")}, 2),
      OrderInput(Mul(Field("u"), Field("v")), {Field("u"), Field("v")}, 2),
      OrderInput(Mul(Field("v"), Mul(Field("v"), Field("v"))), {Field("v")}, 3),
      OrderInput(Field("v"), {OpClass("dx")}, 0),
      OrderInput(Apply("dy", Field("v")), {OpClass("dx")}, 0),
      OrderInput(Apply("dx", Field("v")), {OpClass("dx")}, 1),
      OrderInput(Add(Apply("dx", Field("u")), Apply("dx", Field("v"))), {OpClass("dx")}, 1),
      OrderInput(Apply("dx", Apply("dx", Field("v"))), {OpClass("dx")}, 2),
      OrderInput(Apply("dx", Apply("dy", Field("v"))), {OpClass("dx"), OpClass("dy")}, 2),
      OrderInput(Mul(Scalar(EigenvalueLabel), Field("u")), {Scalar(EigenvalueLabel)}, 1),
      OrderInput(Mul(Scalar(EigenvalueLabel), Scalar(EigenvalueLabel)),
                 {Scalar(EigenvalueLabel)}, 2) }

\* self._require_first_order({'LHS': expr}, 'LHS', vars)
RequireFirstOrder(in) ==
    /\ calls < MaxCalls
    /\ \E out \in {require_first_order_call([LHS |-> in.expr], "LHS", in.vars)} :
          result' = [op |-> "require_first_order", raw |-> "none", stage |-> "none",
                     error |-> out.err.error, msg |-> out.err.msg, key |-> out.err.key,
                     axis |-> out.err.axis, names |-> out.err.names,
                     input |-> in, returned |-> out.returned]
    /\ calls' = calls + 1
    /\ UNCHANGED <<eqs, bcs, cache, kind, variables, bases, meta, parameters,
                   substitutions, nsVars>>

NextOrder == \E in \in OrderInputs : RequireFirstOrder(in)

SpecOrder == Init /\ [][NextOrder]_vars

\* Equations that break several of the checks of one call at once: second
\* order in the eigenvalue with a nonzero RHS; explicit time with a second
\* time derivative; second order in the coupled derivative with a RHS that
\* depends on a variable; and some that break one check or none.
ChkEquations ==
    { Equation("sigma*sigma*u = 1", 1, "sigma*sigma*u", "1",
               RMul(RMul(RName("sigma"), RName("sigma")), u), RNum("1")),
      Equation("t*dt(dt(u)) = 0", 1, "t*dt(dt(u))", "0",
               RMul(RName("t"), dt(dt(u))), zero),
      Equation("dx(dx(u)) = v", 1, "dx(dx(u))", "v", dx(dx(u)), v),
      Equation("u*dx(dx(v)) = v", 1, "u*dx(dx(v))", "v", RMul(u, dx(dx(v))), v),
      UEqV, Heat1, Eigen2, Heat2Time2 }

NextChk ==
    \/ \E eq \in ChkEquations : AddEquation(eq)
    \/ \E eq \in ChkEquations : AddBC(eq)
    \/ \E var \in SeqRange(variables), axis \in 1..Len(bases), b \in ConstantValues :
          SetMetaConstant(var, axis, b)

SpecChk == Init /\ [][NextChk]_vars

\* Names supplied by more than one source of the namespace: parameters
\* named like a variable, a grid, a basis operator, a built-in function;
\* substitution heads named like a variable, a parameter, the time, the
\* eigenvalue, a perturbation; and a substitution that reads a rebound name.
DupParamInputs ==
    { Binding("u", "2"), Binding("x", "2"), Binding("dx", "2"),
      Binding("sin", "2"), Binding("c", "2") }
DupSubstitutionInputs ==
    { Substitution("u", RNum("1")), Substitution("c", RName("u")),
      Substitution(TimeLabel, RNum("1")), Substitution(EigenvalueLabel, RNum("1")),
      Substitution(PertMarker \o "u", RNum("1")) }

NextDup ==
    \/ \E eq \in MetaEquations : AddEquation(eq)
    \/ \E p \in DupParamInputs : SetParameter(p)
    \/ \E sub \in DupSubstitutionInputs : SetSubstitution(sub)

SpecDup == Init /\ [][NextDup]_vars

\* A nonlinear boundary-value problem one of whose declared variables is
\* named like the perturbation of another:
\* NonlinearBoundaryValueProblem(domain, variables=['u', 'δu']).
PertVariableLists == { <<"u", PertMarker \o "u">> }

InitPert == InitProblem({"NLBVP"}, PertVariableLists)

NextPert ==
    \/ \E eq \in RedEquations : AddEquation(eq)
    \/ \E eq \in RedEquations : AddBC(eq)
    \/ \E var \in SeqRange(variables), axis \in 1..Len(bases), b \in ConstantValues :
          SetMetaConstant(var, axis, b)

SpecPert == InitPert /\ [][NextPert]_vars

\* The Namespace class on its own.
NextNs ==
    \/ \E key \in NsKeyInputs, value \in NsValueInputs : NsSet(key, value)
    \/ \E b \in BOOLEAN : NsSetAllowOverwrites(b)
    \/ NsCopy
    \/ \E subs \in NsSubstitutionInputs : NsAddSubstitutions(subs)

\* A Namespace is exercised beside one problem, whose kind does not matter.
InitNs == Init /\ kind = "IVP"

SpecNs == InitNs /\ [][NextNs]_vars

(***************************************************************************)
(* Properties.                                                             *)
(***************************************************************************)
IsAddCall(r) == r.op \in {"add_equation", "add_bc"}
Failed(r) == IsAddCall(r) /\ r.error # "none"

\* C1: a failing add_equation / add_bc, whatever stage fails, leaves the
\* equation list and the boundary-condition list exactly as they were.
C1_AtomicAppend ==
    [][Failed(result') => (eqs' = eqs /\ bcs' = bcs)]_vars

\* a call that fails in the checks after two equations have been recorded
C1_Witness ==
    /\ Failed(result)
    /\ result.stage = "check"
    /\ Len(eqs) = 2

SymbolicFailure(r) ==
    /\ IsAddCall(r)
    /\ r.error \in {"MalformedEquationError", "SymbolicParsingError"}

\* C2 (as stated): a call failing to split or parse, or on a metadata or
\* boundary rule, leaves every piece of problem state unchanged, the cached
\* namespace included.
C2_Original ==
    [][SymbolicFailure(result') =>
          UNCHANGED <<eqs, bcs, parameters, substitutions, meta, cache>>]_vars

\* C2 (amended): such a call leaves the record lists, the parameters, the
\* substitutions and the metadata unchanged; the cached namespace is
\* unchanged when it was built before the call or when the call fails before
\* a namespace is built (in the split, or while the namespace is
\* constructed), and otherwise the failing call has built and cached it.
C2_FailureLeavesProblem ==
    [][SymbolicFailure(result') =>
          /\ UNCHANGED <<eqs, bcs, parameters, substitutions, meta>>
          /\ (cache.built \/ result'.stage \in {"split", "namespace"}) => cache' = cache
          /\ (~cache.built /\ result'.stage \notin {"split", "namespace"}) =>
                (cache'.built /\ cache'.ns =
                    BuildNamespace(kind, variables, bases, parameters, substitutions).ns)]_vars

\* a parse failure on a problem whose namespace was built by an earlier
\* call and whose parameters were set since
C2_Witness ==
    /\ SymbolicFailure(result)
    /\ result.stage = "parse"
    /\ Len(eqs) = 1
    /\ parameters # <<>>
    /\ ~NsHas(cache.ns, "a")

\* C3: in a Namespace whose allow_overwrites was never assigned by the
\* client, assigning a key that is already present is an error.
C3_DefaultRejectsReassign ==
    (/\ nsResult.op = "set"
     /\ ~nsResult.assigned
     /\ NsHas(nsResult.before, nsResult.key)) => ~nsResult.ok

\* C4: assigning a key that is present fails with the name-conflict error
\* and leaves the mapping unchanged when overwriting is disabled; when it is
\* enabled the assignment succeeds, the key is bound to the new value and
\* the order of the keys is kept.
KeySeq(n) == [i \in 1..Len(n.items) |-> n.items[i].key]

C4_ReassignExistingKey ==
    (/\ nsResult.op = "set"
     /\ NsHas(nsResult.before, nsResult.key)) =>
        IF ~nsResult.before.allow_overwrites
        THEN /\ ~nsResult.ok
             /\ nsResult.why = "multiple"
             /\ ns = nsResult.before
        ELSE /\ nsResult.ok
             /\ NsGet(ns, nsResult.key) = nsResult.value
             /\ KeySeq(ns) = KeySeq(nsResult.before)
             /\ \A i \in 1..Len(ns.items) :
                   ns.items[i].key # nsResult.key => ns.items[i] = nsResult.before.items[i]

\* a rejected re-assignment with a different value, overwriting disabled
C4_Witness ==
    /\ nsResult.op = "set"
    /\ NsHas(nsResult.before, nsResult.key)
    /\ ~nsResult.before.allow_overwrites
    /\ NsGet(nsResult.before, nsResult.key) # nsResult.value
    /\ ~nsResult.ok

\* C5: assigning a string that is no identifier fails in both overwrite
\* modes, and every key of the namespace and of its copy is an identifier.
C5_KeysAreIdentifiers ==
    /\ \A key \in NsKeys(ns) \cup NsKeys(nsCopy) : IsIdentifier(key)
    /\ (nsResult.op = "set" /\ ~IsIdentifier(nsResult.key)) =>
          (~nsResult.ok /\ nsResult.why = "identifier" /\ ns = nsResult.before)

\* a non-identifier rejected while overwriting is enabled, on a namespace
\* that already holds substitutions
C5_Witness ==
    /\ nsResult.op = "set"
    /\ ~IsIdentifier(nsResult.key)
    /\ nsResult.before.allow_overwrites
    /\ NsHas(ns, "c")
    /\ ~nsResult.ok

(***************************************************************************)
(* The sides of the equation of the last call, as parsed by it.            *)
(***************************************************************************)
EqOf(raw) ==
    CHOOSE eq \in Equations \cup MetaEquations \cup RedEquations \cup ChkEquations :
        eq.raw = raw
Parsed(r) == IsAddCall(r) /\ r.stage \in {"check", "reduce", "append"}
LHSof(r) == Eval(EqOf(r.raw).lhs, cache.ns).expr
RHSof(r) == Eval(EqOf(r.raw).rhs, cache.ns).expr
LastRecord == IF result.op = "add_equation" THEN eqs[Len(eqs)] ELSE bcs[Len(bcs)]
NeverAppended(raw) ==
    /\ \A i \in 1..Len(eqs) : eqs[i].raw_equation # raw
    /\ \A i \in 1..Len(bcs) : bcs[i].raw_equation # raw
Axes == 1..Len(bases)
CoupledAxes == {a \in Axes : ~bases[a].separable}

\* The metadata of the two sides of "u = v" and "u = 1", read off the
\* problem's metadata.
LeftMeta(r) == meta["u"]
RightMeta(r) == IF r.raw = "u = v" THEN meta["v"]
                ELSE [a \in Axes |-> [scale |-> 1, constant |-> TRUE, parity |-> 0]]

AxisConsistent(L, R) ==
    /\ L.constant => R.constant
    /\ R.parity # 0 => L.parity = R.parity

MetaAccepts(r) == \A a \in Axes : AxisConsistent(LeftMeta(r)[a], RightMeta(r)[a])
FirstBadAxis(r) ==
    CHOOSE a \in Axes :
        /\ ~AxisConsistent(LeftMeta(r)[a], RightMeta(r)[a])
        /\ \A b \in Axes : b < a => AxisConsistent(LeftMeta(r)[b], RightMeta(r)[b])

\* C6: a call that reaches the metadata check passes it exactly when, on
\* every axis, a constant LHS has a constant RHS and a nonzero RHS parity
\* equals the LHS parity, whatever the scales; a violation raises
\* SymbolicParsingError naming the basis of the first offending axis.
C6_MetaConsistency ==
    (/\ Parsed(result)
     /\ result.raw \in {"u = v", "u = 1"}
     /\ result.error # "UnsupportedEquationError") =>
        IF MetaAccepts(result)
        THEN \/ result.error = "none"
             \/ result.op = "add_bc" /\ result.msg = "Boundary condition must be constant"
        ELSE /\ result.error = "SymbolicParsingError"
             /\ result.key \in {"constant", "parity"}
             /\ result.msg # "Boundary condition must be constant"
             /\ result.axis = bases[FirstBadAxis(result)].name

\* parities disagree along x only, while the scales of the two sides differ
C6_Witness ==
    /\ result.op = "add_equation"
    /\ result.raw = "u = v"
    /\ result.error = "SymbolicParsingError"
    /\ result.key = "parity"
    /\ result.axis = "x"
    /\ \E a \in Axes : meta["u"][a].scale # meta["v"][a].scale

NonConstantCoupled(r) ==
    \E a \in CoupledAxes :
        \/ ~ExprMeta(LHSof(r), a, meta, bases).constant
        \/ ~ExprMeta(RHSof(r), a, meta, bases).constant

LastTemp(r) == [LHS |-> LHSof(r), RHS |-> RHSof(r)]

\* The variant conditions and the differential-order check of the call.
EarlyError(r) ==
    FirstError(<<check_conditions(kind, LastTemp(r), cache.ns, variables),
                 check_differential_order(LastTemp(r), bases)>>)

\* C7 (as stated): add_bc fails with SymbolicParsingError whenever a side
\* is not constant along a coupled axis.
C7_Original ==
    (result.op = "add_bc" /\ Parsed(result) /\ NonConstantCoupled(result)) =>
        result.error = "SymbolicParsingError"

\* C7 (amended): add_bc fails whenever a side is not constant along a
\* coupled axis, with SymbolicParsingError unless the variant conditions or
\* the differential-order check fail first with UnsupportedEquationError;
\* the boundary-form error is raised for nothing else (constancy along
\* separable axes is not required), and add_equation never raises it.
C7_BoundaryForm ==
    /\ (result.op = "add_bc" /\ Parsed(result)) =>
          /\ NonConstantCoupled(result) =>
                IF EarlyError(result).error = "none"
                THEN result.error = "SymbolicParsingError"
                ELSE result.error = "UnsupportedEquationError"
          /\ result.msg = "Boundary condition must be constant" =>
                NonConstantCoupled(result)
          /\ result.error = "none" =>
                \A a \in CoupledAxes :
                    /\ ExprMeta(LastRecord.LHS, a, meta, bases).constant
                    /\ ExprMeta(LastRecord.RHS, a, meta, bases).constant
    /\ result.op = "add_equation" =>
          result.msg # "Boundary condition must be constant"

\* a boundary condition rejected for its form after one was accepted whose
\* sides vary along the separable axis
C7_Witness ==
    /\ result.op = "add_bc"
    /\ result.msg = "Boundary condition must be constant"
    /\ result.axis = "x"
    /\ Len(bcs) = 1
    /\ \E a \in Axes \ CoupledAxes : ~ExprMeta(bcs[1].LHS, a, meta, bases).constant

CoupledOrder(r) ==
    order(LHSof(r), {OpClass("d" \o bases[a].name) : a \in CoupledAxes})

\* C8: in every variant a LHS of order above 1 in the derivatives of the
\* coupled axes is rejected with UnsupportedEquationError; a record that is
\* appended has differential = TRUE exactly when that order is 1, so
\* derivatives along separable axes alone leave it FALSE.
C8_DifferentialFlag ==
    Parsed(result) =>
        /\ CoupledOrder(result) > 1 => result.error = "UnsupportedEquationError"
        /\ result.error = "none" =>
              /\ CoupledOrder(result) \in {0, 1}
              /\ LastRecord.differential = (CoupledOrder(result) = 1)

\* a record whose LHS differentiates only along the separable axis
C8_Witness ==
    /\ result.raw = "dy(dy(u)) + v = 0"
    /\ result.error = "none"
    /\ LastRecord.differential = FALSE
    /\ \E i \in 1..Len(eqs) : eqs[i].differential

NsFields == <<Field("u"), Field("v")>>

\* C9 (as stated): on an initial-value problem add_equation of
\* "dt(u) - dx(dx(u)) = 0" succeeds with differential = TRUE, M the
\* coefficient 1 of dt(u) and L = -dx(dx(.)).
C9_Original ==
    (/\ kind = "IVP"
     /\ result.op = "add_equation"
     /\ Parsed(result)
     /\ result.raw = "dt(u) - dx(dx(u)) = 0") =>
        /\ result.error = "none"
        /\ LastRecord.differential
        /\ LastRecord.M = <<Field("u"), NsFields>>
        /\ LastRecord.L = <<Mul(Num("-1"), Apply("dx", Apply("dx", Field("u")))), NsFields>>

\* C9 (amended): x being coupled, "dt(u) - dx(dx(u)) = 0" is rejected with
\* UnsupportedEquationError (LHS is of second order in dx) and nothing is
\* appended; the first-order form "dt(u) - dx(v) = 0" succeeds and appends a
\* record with differential = TRUE, M = u (the coefficient 1 of dt(u)),
\* L = -dx(v) and F = 0.
C9_HeatEquation ==
    (kind = "IVP" /\ result.op = "add_equation" /\ Parsed(result)) =>
        /\ result.raw = "dt(u) - dx(dx(u)) = 0" =>
              /\ result.error = "UnsupportedEquationError"
              /\ result.msg = "must be first-order"
              /\ result.key = "LHS"
              /\ result.names = {"dx"}
              /\ NeverAppended(result.raw)
        /\ result.raw = "dt(u) - dx(v) = 0" =>
              /\ result.error = "none"
              /\ LastRecord.raw_equation = result.raw
              /\ LastRecord.differential
              /\ LastRecord.M = <<Field("u"), NsFields>>
              /\ LastRecord.L = <<Mul(Num("-1"), Apply("dx", Field("v"))), NsFields>>
              /\ LastRecord.F = Num("0")

\* the second-order form rejected after the first-order form was recorded
C9_Witness ==
    /\ kind = "IVP"
    /\ result.op = "add_equation"
    /\ result.raw = "dt(u) - dx(dx(u)) = 0"
    /\ result.error = "UnsupportedEquationError"
    /\ Len(eqs) = 1
    /\ eqs[1].raw_equation = "dt(u) - dx(v) = 0"

TimeNames == {TimeLabel, "d" \o TimeLabel}

\* C10: an initial-value problem rejects with UnsupportedEquationError, and
\* appends nothing for, an equation or boundary condition whose LHS contains
\* the time scalar or is of order above 1 in the time derivative; otherwise
\* no error about the time scalar or the time derivative is raised.
C10_TimeConditions ==
    (kind = "IVP" /\ Parsed(result)) =>
        IF \/ has(LHSof(result), {Scalar(TimeLabel)})
           \/ order(LHSof(result), {OpClass("d" \o TimeLabel)}) > 1
        THEN /\ result.error = "UnsupportedEquationError"
             /\ result.key = "LHS"
             /\ result.names \subseteq TimeNames
             /\ NeverAppended(result.raw)
        ELSE result.names \cap TimeNames = {}

\* the equation of second order in time rejected as a boundary condition
\* of a problem that holds a record
C10_Witness ==
    /\ kind = "IVP"
    /\ result.op = "add_bc"
    /\ result.raw = "dt(u) - dx(dx(u)) - dt(dt(u)) = 0"
    /\ result.error = "UnsupportedEquationError"
    /\ result.names = {"dt"}
    /\ Len(eqs) = 1

(***************************************************************************)
(* The reduced forms of the variants.                                      *)
(***************************************************************************)
\* C11: a linear boundary-value problem rejects with
\* UnsupportedEquationError, appending nothing, an equation or boundary
\* condition whose RHS depends on a declared variable; a record it appends
\* holds L = (canonical linear form of LHS in the declared variables, taken
\* in declaration order; the variables), F = the parsed RHS, and no M.
C11_LinearBVP ==
    (kind = "LBVP" /\ Parsed(result)) =>
        /\ has(RHSof(result), SeqRange(NsFields)) =>
              /\ result.error = "UnsupportedEquationError"
              /\ result.msg = "must be independent"
              /\ result.key = "RHS"
              /\ result.names = {"u", "v"}
              /\ NeverAppended(result.raw)
        /\ result.error = "none" =>
              /\ ~has(RHSof(result), SeqRange(NsFields))
              /\ LastRecord.L = <<canonical_linear_form(LHSof(result), NsFields), NsFields>>
              /\ LastRecord.F = RHSof(result)
              /\ "M" \notin DOMAIN LastRecord
              /\ result.raw = "v - dx(u) = 0" =>
                    LastRecord.L[1] = Add(Mul(Num("-1"), Apply("dx", Field("u"))), Field("v"))

\* "dx(v) = u*u" rejected by a linear problem that holds "v - dx(u) = 0"
C11_Witness ==
    /\ kind = "LBVP"
    /\ result.raw = "dx(v) = u*u"
    /\ result.error = "UnsupportedEquationError"
    /\ result.key = "RHS"
    /\ Len(eqs) = 1
    /\ eqs[1].raw_equation = "v - dx(u) = 0"

NsPertFields == <<Pert("u"), Pert("v")>>
Accepted(r) == IsAddCall(r) /\ r.error = "none"

EnvNames == {"u", "v", PertMarker \o "u", PertMarker \o "v", EigenvalueLabel}
Envs == [EnvNames -> {-1, 2}]
NumValue(n) == CASE n = "0" -> 0 [] n = "-1" -> 0 - 1 [] OTHER -> 1

RECURSIVE Value(_, _)
Value(e, env) ==
    CASE Tag(e) = "num"            -> NumValue(Name(e))
      [] Tag(e) \in {"field", "pert"} -> env[Name(e)]
      [] Tag(e) = "scalar" /\ Name(e) \in EnvNames -> env[Name(e)]
      [] Tag(e) = "add"            -> Value(Args(e)[1], env) + Value(Args(e)[2], env)
      [] Tag(e) = "mul"            -> Value(Args(e)[1], env) * Value(Args(e)[2], env)
      [] Tag(e) = "op"             ->
            (IF Name(e) = "d" \o TimeLabel THEN 5 ELSE 3) * Value(Args(e)[1], env)
      [] OTHER                     -> 1

\* every op acts as a scaling; the time derivative scales by 5, every
\* other operator by 3
\* the point moved by t times the perturbations, and the perturbations
\* scaled by c
Moved(env, t) ==
    [x \in EnvNames |-> IF x \in {"u", "v"} THEN env[x] + t * env[PertMarker \o x]
                        ELSE env[x]]
Scaled(env, c) ==
    [x \in EnvNames |-> IF x \in {"u", "v"} THEN env[x] ELSE c * env[x]]

\* d/dt F(vars + t*perts) at t = 0, exact for F of degree at most 2
Sensitivity(F, env) == (Value(F, Moved(env, 1)) - Value(F, Moved(env, 0 - 1))) \div 2

\* C13: the dF recorded by a nonlinear boundary-value problem is the pair
\* (first-order sensitivity of RHS to a simultaneous perturbation of all
\* the variables; the perturbations): at every point its value is the
\* derivative of RHS along the perturbations, it is linear in the
\* perturbations, it is 0 when RHS names no variable, and for RHS u*u it
\* is 2*u*δu.
C13_FrechetDerivative ==
    /\ (kind = "NLBVP" /\ Accepted(result)) =>
          /\ LastRecord.dF[2] = NsPertFields
          /\ HasLinearForm(LastRecord.dF[1], NsPertFields)
          /\ \A env \in Envs :
                /\ Value(LastRecord.dF[1], env) = Sensitivity(RHSof(result), env)
                /\ Value(LastRecord.dF[1], Scaled(env, 2))
                      = 2 * Value(LastRecord.dF[1], env)
          /\ ~has(RHSof(result), SeqRange(NsFields)) => LastRecord.dF[1] = Num("0")
    /\ (/\ kind = "NLBVP"
        /\ result.op = "add_equation"
        /\ Parsed(result)
        /\ result.raw = "dx(v) = u*u") =>
          /\ result.error = "none"
          /\ LastRecord.dF[1] = Add(Mul(Pert("u"), Field("u")), Mul(Field("u"), Pert("u")))
          /\ \A env \in Envs :
                Value(LastRecord.dF[1], env) = 2 * env["u"] * env[PertMarker \o "u"]
    /\ (/\ kind = "NLBVP"
        /\ result.op = "add_equation"
        /\ Parsed(result)
        /\ result.raw = "dx(u) = u*v") =>
          /\ result.error = "none"
          /\ LastRecord.dF[1] = Add(Mul(Pert("u"), Field("v")), Mul(Field("u"), Pert("v")))

\* a product of two variables recorded after the square of one
C13_Witness ==
    /\ kind = "NLBVP"
    /\ Accepted(result)
    /\ result.raw = "dx(u) = u*v"
    /\ LastRecord.dF[1] = Add(Mul(Pert("u"), Field("v")), Mul(Field("u"), Pert("v")))
    /\ Len(eqs) + Len(bcs) = 2
    /\ \E i \in 1..Len(eqs) : eqs[i].raw_equation = "dx(v) = u*u"

Ev == Scalar(EigenvalueLabel)

\* C14: an eigenvalue problem rejects with UnsupportedEquationError,
\* appending nothing, an equation or boundary condition whose LHS is of
\* order above 1 in the eigenvalue or whose RHS is not zero; a record it
\* appends has a zero RHS and an LHS of order at most 1, and holds M and L
\* over the declared variables, both free of the eigenvalue, with
\* eigenvalue*M + L equal to LHS at every point.
C14_Eigenvalue ==
    (kind = "EVP" /\ Parsed(result)) =>
        /\ order(LHSof(result), {Ev}) > 1 =>
              /\ result.error = "UnsupportedEquationError"
              /\ result.msg = "must be first-order"
              /\ result.key = "LHS"
              /\ result.names = {EigenvalueLabel}
              /\ NeverAppended(result.raw)
        /\ (order(LHSof(result), {Ev}) <= 1 /\ ~IsZero(RHSof(result))) =>
              /\ result.error = "UnsupportedEquationError"
              /\ result.msg = "must be zero"
              /\ result.key = "RHS"
              /\ NeverAppended(result.raw)
        /\ result.error = "none" =>
              /\ IsZero(RHSof(result))
              /\ order(LHSof(result), {Ev}) <= 1
              /\ LastRecord.M[2] = NsFields
              /\ LastRecord.L[2] = NsFields
              /\ ~has(LastRecord.M[1], {Ev})
              /\ ~has(LastRecord.L[1], {Ev})
              /\ \A env \in Envs :
                    env[EigenvalueLabel] * Value(LastRecord.M[1], env)
                        + Value(LastRecord.L[1], env) = Value(LHSof(result), env)
        /\ (result.op = "add_equation" /\ result.raw = "sigma*u + dx(v) = 0") =>
              /\ result.error = "none"
              /\ LastRecord.M[1] = Mul(Num("1"), Field("u"))
              /\ LastRecord.L[1] = Apply("dx", Field("v"))

\* the equation of second order in the eigenvalue rejected by a problem
\* that holds the first-order one
C14_Witness ==
    /\ kind = "EVP"
    /\ result.op = "add_equation"
    /\ result.raw = "sigma*sigma*u = 0"
    /\ result.error = "UnsupportedEquationError"
    /\ Len(eqs) = 1
    /\ eqs[1].raw_equation = "sigma*u + dx(v) = 0"
    /\ eqs[1].M[1] = Mul(Num("1"), Field("u"))

(***************************************************************************)
(* The boundary condition "u = 1" on a coupled axis.                       *)
(***************************************************************************)
\* the coupled axes along which u is marked non-constant
VaryingCoupled == {a \in CoupledAxes : ~meta["u"][a].constant}
FirstVaryingCoupled == CHOOSE a \in VaryingCoupled : \A b \in VaryingCoupled : a <= b

UEqOneOnVarying ==
    /\ result.op = "add_bc"
    /\ result.raw = "u = 1"
    /\ VaryingCoupled # {}

\* C15 (as stated): in every variant add_bc("u = 1") with u non-constant
\* along a coupled axis fails with the SymbolicParsingError of the
\* boundary-form check.
C15_Original ==
    UEqOneOnVarying =>
        /\ result.error = "SymbolicParsingError"
        /\ result.msg = "Boundary condition must be constant"

\* C15 (amended): add_bc("u = 1") with u non-constant along a coupled axis
\* fails in every variant at the checks that precede the reduction and the
\* append; in the initial-value and the two boundary-value variants the failure is the SymbolicParsingError
\* of the boundary-form check, naming the first coupled axis along which u
\* varies; in the eigenvalue variant it is the UnsupportedEquationError
\* "RHS must be zero" of the variant's own conditions, which run first.
C15_BoundaryScenario ==
    UEqOneOnVarying =>
        /\ result.stage = "check"
        /\ IF kind = "EVP"
           THEN /\ result.error = "UnsupportedEquationError"
                /\ result.msg = "must be zero"
                /\ result.key = "RHS"
           ELSE /\ result.error = "SymbolicParsingError"
                /\ result.msg = "Boundary condition must be constant"
                /\ result.axis = bases[FirstVaryingCoupled].name

\* the boundary condition refused by a nonlinear problem whose u was
\* marked constant along the separable axis only
C15_Witness ==
    /\ UEqOneOnVarying
    /\ kind = "NLBVP"
    /\ result.msg = "Boundary condition must be constant"
    /\ result.axis = "x"
    /\ \E a \in Axes \ CoupledAxes : meta["u"][a].constant

(***************************************************************************)
(* The shape of the reduced forms of a record.                             *)
(***************************************************************************)
ReducedKeys == {"M", "L", "F", "dF", "F-L"}
LinearKeys  == {"M", "L", "dF"}
ReducedOf(rec) == DOMAIN rec \cap ReducedKeys

\* a symbolic expression, and a pair (expression, list of variables)
IsExpression(x) == Len(x) = 3 /\ x[1] \in STRING /\ x[2] \in STRING
IsPair(x) == Len(x) = 2 /\ IsExpression(x[1]) /\ x[2] \in {NsFields, NsPertFields}

VariantKeys ==
    CASE kind = "IVP"   -> {"M", "L", "F"}
      [] kind = "LBVP"  -> {"L", "F"}
      [] kind = "NLBVP" -> {"L", "dF", "F-L"}
      [] OTHER          -> {"M", "L"}

\* C16 (as stated): every reduced form of an appended record is a pair
\* (expression, ordered list of linearization variables).
C16_Original ==
    Accepted(result) => \A k \in ReducedOf(LastRecord) : IsPair(LastRecord[k])

\* C16 (amended): an appended record holds exactly the reduced forms of its
\* variant; M, L and dF are pairs (expression in linear form, ordered list
\* of linearization variables: the perturbations for a nonlinear problem,
\* the declared variables otherwise); F and F-L are bare expressions, F
\* being the parsed RHS.
C16_ReducedShapes ==
    Accepted(result) =>
        /\ ReducedOf(LastRecord) = VariantKeys
        /\ \A k \in ReducedOf(LastRecord) \cap LinearKeys :
              /\ IsPair(LastRecord[k])
              /\ LastRecord[k][2] = IF kind = "NLBVP" THEN NsPertFields ELSE NsFields
              /\ HasLinearForm(LastRecord[k][1], LastRecord[k][2])
        /\ \A k \in ReducedOf(LastRecord) \ LinearKeys :
              /\ IsExpression(LastRecord[k])
              /\ ~IsPair(LastRecord[k])
        /\ "F" \in DOMAIN LastRecord => LastRecord.F = RHSof(result)

\* a nonlinear record with dF a pair and F-L a bare expression, appended
\* after another record
C16_Witness ==
    /\ kind = "NLBVP"
    /\ Accepted(result)
    /\ result.raw = "dx(v) = u*u"
    /\ IsPair(LastRecord.dF)
    /\ IsExpression(LastRecord["F-L"])
    /\ Len(eqs) = 2

(***************************************************************************)
(* The life of the cached namespace.                                       *)
(***************************************************************************)
\* what a namespace access made in the current state would return
Resolves == NamespaceAccess(cache, kind, variables, bases, parameters, substitutions)
FreshBuild == BuildNamespace(kind, variables, bases, parameters, substitutions)
Resolved == Resolves.ok

\* the step is a call that reads the namespace; the step sets a parameter
\* or a substitution
Accesses == IsAddCall(result') /\ result'.stage # "split"
Sets == result'.op \in {"set_parameter", "set_substitution"}

\* C17 (as stated): the first access builds the namespace, and after an
\* access setting parameters or substitutions changes nothing that later
\* calls resolve.
C17_Original ==
    [][/\ (Accesses /\ ~cache.built) => cache'.built
       /\ (IsAddCall(result) /\ result.stage # "split" /\ Sets /\ ~Resolves.ok) =>
             ~Resolved']_vars

\* C17 (amended): a namespace is stored at most once.  An access made while
\* none is stored constructs one from the parameters and substitutions of
\* that moment and stores it only if the construction succeeds; a failed
\* construction stores nothing and fails the call, and the next access
\* constructs again.  A stored namespace is never replaced, every later
\* access returns it, and setting parameters or substitutions afterwards
\* changes nothing that later calls resolve: an equation naming a parameter
\* set after the store fails.
C17_NamespaceOnce ==
    /\ [][/\ cache.built => cache' = cache
          /\ (~cache.built /\ cache'.built) =>
                /\ Accesses
                /\ FreshBuild.ok
                /\ cache'.ns = FreshBuild.ns
          /\ (Accesses /\ ~cache.built /\ ~cache'.built) =>
                /\ ~FreshBuild.ok
                /\ result'.stage = "namespace"
          /\ (Accesses /\ cache.built) => result'.stage # "namespace"]_vars
    /\ [](/\ cache.built =>
               /\ Resolves.ok
               /\ Resolves.ns = cache.ns
               /\ Resolves.cache = cache
          /\ (IsAddCall(result) /\ result.raw = "a*u + v = 0"
               /\ cache.built /\ ~NsHas(cache.ns, "a")) => result.stage = "parse"
          /\ (Accepted(result) /\ result.raw = "a*u + v = 0") =>
               cache.built /\ NsHas(cache.ns, "a"))

\* an equation that names the parameter a, refused by a problem whose
\* namespace was stored before a was set
C17_Witness ==
    /\ IsAddCall(result)
    /\ result.raw = "a*u + v = 0"
    /\ result.stage = "parse"
    /\ cache.built
    /\ ~NsHas(cache.ns, "a")
    /\ \E i \in 1..Len(parameters) : parameters[i].key = "a"

(***************************************************************************)
(* The keys of the namespace of each variant.                              *)
(***************************************************************************)
BaseKeys ==
    {bases[a].name : a \in Axes}
    \cup UNION {SeqRange(bases[a].operators) : a \in Axes}
    \cup SeqRange(variables)
    \cup {parameters[i].key : i \in 1..Len(parameters)}
    \cup SeqRange(Parseables)
    \cup {lambdify_functions(substitutions[i]).head : i \in 1..Len(substitutions)}

VariantAdditions ==
    CASE kind = "IVP"   -> {TimeLabel, "d" \o TimeLabel}
      [] kind = "LBVP"  -> {}
      [] kind = "NLBVP" -> {PertMarker \o variables[i] : i \in 1..Len(variables)}
      [] OTHER          -> {EigenvalueLabel}

AllAdditions ==
    {TimeLabel, "d" \o TimeLabel, EigenvalueLabel}
    \cup {PertMarker \o variables[i] : i \in 1..Len(variables)}

\* C18: the step that builds the namespace leaves a key set made of the
\* basis names, the basis operator names, the variables, the parameters,
\* the built-ins and the substitution heads of that moment, plus exactly
\* the additions of the variant; a built namespace holds the additions of
\* its own variant and of no other: the time scalar and the time
\* derivative, nothing, one perturbation field per declared variable named
\* by the marker and the variable and carrying the variable's metadata, or
\* the eigenvalue scalar.
C18_NamespaceKeys ==
    /\ [][(~cache.built /\ cache'.built) =>
              /\ NsKeys(cache'.ns) = BaseKeys \cup VariantAdditions
              /\ NsKeys(cache'.ns) \ BaseKeys = VariantAdditions
              /\ Len(cache'.ns.items) = Cardinality(NsKeys(cache'.ns))]_vars
    /\ [](cache.built =>
              /\ NsKeys(cache.ns) \cap AllAdditions = VariantAdditions
              /\ kind = "IVP" =>
                    /\ NsGet(cache.ns, TimeLabel) = Scalar(TimeLabel)
                    /\ NsGet(cache.ns, "d" \o TimeLabel) = OpClass("d" \o TimeLabel)
              /\ kind = "EVP" => NsGet(cache.ns, EigenvalueLabel) = Ev
              /\ kind = "NLBVP" =>
                    \A i \in 1..Len(variables) :
                        /\ Tag(NsGet(cache.ns, PertMarker \o variables[i])) = "pert"
                        /\ Name(NsGet(cache.ns, PertMarker \o variables[i]))
                              = PertMarker \o variables[i]
                        /\ Args(NsGet(cache.ns, PertMarker \o variables[i]))
                              = <<NsGet(cache.ns, variables[i])>>
                        /\ \A a \in Axes :
                              ExprMeta(NsGet(cache.ns, PertMarker \o variables[i]),
                                       a, meta, bases) = meta[variables[i]][a])

\* a nonlinear problem's namespace built with a parameter and a
\* substitution in place
C18_Witness ==
    /\ kind = "NLBVP"
    /\ cache.built
    /\ IsAddCall(result)
    /\ NsKeys(cache.ns) =
          {"x", "dx", "y", "dy", "u", "v", "a", "sin", "c",
           PertMarker \o "u", PertMarker \o "v"}

(***************************************************************************)
(* The order of add_substitutions.                                         *)
(***************************************************************************)
\* The items after the first i entries of subs were processed one by one,
\* each evaluated in the items left by the entries before it.
RECURSIVE StageItems(_, _, _)
StageItems(before, subs, i) ==
    IF i = 0 THEN before.items
    ELSE OrderedDict_setitem(
             StageItems(before, subs, i - 1), subs[i].call,
             Eval(subs[i].body, [before EXCEPT !.items = StageItems(before, subs, i - 1)]).expr)

StageNs(before, subs, i) == [before EXCEPT !.items = StageItems(before, subs, i)]

\* entry i can be evaluated and bound in the namespace of stage i - 1
EntryEvaluates(before, subs, i) == Eval(subs[i].body, StageNs(before, subs, i - 1)).ok
EntryBinds(before, subs, i) ==
    IF NsHas(StageNs(before, subs, i - 1), subs[i].call)
    THEN before.allow_overwrites
    ELSE IsIdentifier(subs[i].call)

\* the number of entries processed before the first one that raises
Processed(before, subs) ==
    CHOOSE d \in 0..Len(subs) :
        /\ \A j \in 1..d : EntryEvaluates(before, subs, j) /\ EntryBinds(before, subs, j)
        /\ d < Len(subs) =>
              ~(EntryEvaluates(before, subs, d + 1) /\ EntryBinds(before, subs, d + 1))

ForwardSubs == <<Substitution("b", RName("c")), Substitution("c", RNum("2"))>>
BackwardSubs == <<Substitution("c", RNum("1")), Substitution("b", RName("c"))>>

MessageSides(r) ==
    TemplateSides(r.msg) \cup (IF "key" \in FormatArgs(r.msg) THEN {r.key} ELSE {})

SplitParseOrMetaFailure(r) ==
    /\ IsAddCall(r)
    /\ \/ r.stage \in {"split", "parse"}
       \/ r.stage = "check" /\ r.error = "SymbolicParsingError"

\* C20: every error of add_equation/add_bc for an equation that cannot be
\* split or parsed, or that breaks a metadata or boundary rule, has a
\* message that names the index of the equation and the failing side, and
\* for the metadata and boundary errors the basis as well.
C20_MessagesNameIndexAndSide ==
    SplitParseOrMetaFailure(result) =>
        /\ "index" \in FormatArgs(result.msg)
        /\ MessageSides(result) \cap {"LHS", "RHS"} # {}
        /\ result.stage = "check" =>
              /\ "basis.name" \in FormatArgs(result.msg)
              /\ result.axis \in {bases[a].name : a \in Axes}

(***************************************************************************)
(* The order of the stages of one call.                                    *)
(***************************************************************************)
SidesEvaluate(r) ==
    /\ Eval(EqOf(r.raw).lhs, cache.ns).ok
    /\ Eval(EqOf(r.raw).rhs, cache.ns).ok

\* the checks of the call, run on its parsed sides
ChecksOf(r) ==
    IF r.op = "add_bc"
    THEN check_bc_conditions(kind, LastTemp(r), cache.ns, variables, meta, bases)
    ELSE check_eqn_conditions(kind, LastTemp(r), cache.ns, variables, meta, bases)

\* C21: a call ends in the split exactly when the text cannot be split,
\* and then no namespace is built; otherwise the namespace is the first
\* thing the parse needs; a call ends in the parse exactly when a side does
\* not evaluate (the LHS is tried first); in the checks exactly when both
\* sides parsed and a check raises; in the reduction exactly when the
\* checks passed and a form is not linear; and it appends, exactly one
\* record, exactly when every earlier stage succeeded.
C21_StageOrder ==
    /\ [](IsAddCall(result) =>
            /\ result.stage = "split" <=> ~split_equation_ok(EqOf(result.raw))
            /\ result.stage = "namespace" => ~cache.built
            /\ result.stage \in {"parse", "check", "reduce", "append"} => cache.built
            /\ result.stage = "parse" <=>
                  /\ split_equation_ok(EqOf(result.raw))
                  /\ cache.built
                  /\ ~SidesEvaluate(result)
            /\ result.stage = "parse" =>
                  result.key = IF Eval(EqOf(result.raw).lhs, cache.ns).ok
                               THEN "RHS" ELSE "LHS"
            /\ Parsed(result) =>
                  /\ split_equation_ok(EqOf(result.raw))
                  /\ SidesEvaluate(result)
                  /\ result.stage = "check" <=> ChecksOf(result).error # "none"
                  /\ result.stage = "check" => result.error = ChecksOf(result).error
                  /\ result.stage = "reduce" <=>
                        /\ ChecksOf(result).error = "none"
                        /\ ReductionRaises(kind, LastTemp(result), cache.ns, variables)
            /\ result.stage = "append" <=> result.error = "none"
            /\ result.error = "none" => LastRecord.raw_equation = result.raw)
    /\ [][IsAddCall(result') =>
            /\ result'.stage = "split" => cache' = cache
            /\ (~cache.built /\ result'.stage # "split") =>
                  (cache'.built \/ result'.stage = "namespace")
            /\ result'.error = "none" <=>
                  Len(eqs') + Len(bcs') = Len(eqs) + Len(bcs) + 1
            /\ result'.error # "none" => (eqs' = eqs /\ bcs' = bcs)]_vars

\* a call stopped in the reduction, after its checks passed, on a problem
\* that already holds a record
C21_Witness ==
    /\ IsAddCall(result)
    /\ result.stage = "reduce"
    /\ result.raw = "u*u = 0"
    /\ ChecksOf(result).error = "none"
    /\ Len(eqs) + Len(bcs) = 1

(***************************************************************************)
(* The value returned by _require_first_order.                             *)
(***************************************************************************)
OrderCall == result.op = "require_first_order"

\* C22: _require_first_order returns 0 for an expression that does not
\* depend on the given variables, 1 for one of first order in them, and
\* raises UnsupportedEquationError, returning nothing, for every order
\* above 1: no value above 1 is ever returned.
C22_RequireFirstOrder ==
    OrderCall =>
        /\ result.returned \subseteq {0, 1}
        /\ ~has(result.input.expr, result.input.vars) =>
              /\ result.input.known = 0
              /\ result.returned = {0}
        /\ result.input.known = 0 => (result.returned = {0} /\ result.error = "none")
        /\ result.input.known = 1 => (result.returned = {1} /\ result.error = "none")
        /\ result.input.known > 1 =>
              /\ result.returned = {}
              /\ result.error = "UnsupportedEquationError"
              /\ result.msg = "must be first-order"
              /\ result.key = "LHS"
              /\ result.names = {Name(x) : x \in result.input.vars}

\* the square of a variable refused after a first-order expression was
\* let through
C22_Witness ==
    /\ OrderCall
    /\ result.input.expr = Mul(Field("v"), Field("v"))
    /\ result.error = "UnsupportedEquationError"
    /\ result.returned = {}
    /\ calls = 2

\* M applied to dt(X): every variable of e under the time derivative
RECURSIVE OnDt(_)
OnDt(e) ==
    CASE Tag(e) = "field" -> Apply("d" \o TimeLabel, e)
      [] IsLeaf(e)        -> e
      [] OTHER            -> Node(Tag(e), Name(e), [i \in 1..Len(Args(e)) |-> OnDt(Args(e)[i])])

TimeFree(e) == ~has(e, {OpClass("d" \o TimeLabel)})

\* C23: for every LHS accepted by an initial-value problem the recorded M
\* and L are free of the time-derivative operator, M applied to dt(X)
\* plus L applied to X has the value of the original LHS at every point,
\* and the recorded F is the parsed RHS.  For dt(u) + dx(dt(v)) + u the
\* M branch is u + dx(v) and L is u.
C23_InitialValueRoundTrip ==
    (kind = "IVP" /\ Accepted(result)) =>
        LET K(rec, lhs) ==
                /\ TimeFree(rec.M[1]) /\ TimeFree(rec.L[1])
                /\ \A env \in Envs :
                      Value(OnDt(rec.M[1]), env) + Value(rec.L[1], env) = Value(lhs, env)
                /\ rec.F = RHSof(result)
                /\ rec.M[2] = NsFields /\ rec.L[2] = NsFields
                /\ (result.raw = TwoTime.raw) =>
                      /\ rec.M[1] = Add(Field("u"), Apply("dx", Field("v")))
                      /\ rec.L[1] = Field("u")
                /\ (~TimeFree(lhs)) => rec.M[1] # Num("0")
        IN K(LastRecord, LHSof(result))

C23_Witness ==
    /\ kind = "IVP" /\ Accepted(result) /\ result.raw = TwoTime.raw
    /\ LastRecord.L[1] = Field("u")


\* list2 is list1 with exactly one record, made from the equation text
\* raw, added at its end
AppendsOne(list1, list2, raw) ==
    /\ Len(list2) = Len(list1) + 1
    /\ SubSeq(list2, 1, Len(list1)) = list1
    /\ list2[Len(list2)].raw_equation = raw

\* C24: a successful add_equation appends exactly one record, the one of
\* the equation just given, at the end of eqs and leaves bcs and every
\* earlier record as they were; symmetrically for add_bc; every other
\* step leaves both lists as they were.  Hence the lists never hold more
\* records than calls were made.
C24_AppendFrame ==
    /\ [][((result'.op = "add_equation" /\ result'.error = "none") =>
             (AppendsOne(eqs, eqs', result'.raw) /\ bcs' = bcs))
          /\ ((result'.op = "add_bc" /\ result'.error = "none") =>
             (AppendsOne(bcs, bcs', result'.raw) /\ eqs' = eqs))
          /\ (~Accepted(result') => (eqs' = eqs /\ bcs' = bcs))]_vars
    /\ [](Len(eqs) + Len(bcs) <= calls)

\* a third equation accepted after two different ones, which are still
\* there in call order
C24_Witness ==
    /\ result.op = "add_equation" /\ result.error = "none"
    /\ Len(eqs) = 3 /\ bcs = <<>>
    /\ eqs[1].raw_equation # eqs[2].raw_equation
    /\ eqs[3].raw_equation = result.raw

\* the result of the call is the exception err
Raised(r, err) ==
    /\ r.stage = "check"
    /\ <<r.error, r.msg, r.key, r.axis, r.names>> =
         <<err.error, err.msg, err.key, err.axis, err.names>>

\* the result is UnsupportedEquationError with this message about this side
Unsupported(r, msg, key) ==
    /\ r.stage = "check" /\ r.error = "UnsupportedEquationError"
    /\ r.msg = msg /\ r.key = key

\* C25: the error of a call that parsed is the one of the first violated
\* check in the order variant conditions, coupled differential order,
\* metadata consistency, boundary form (boundary conditions only).  The
\* eigenvalue variant looks at the order in the eigenvalue before the
\* zero RHS, the initial-value variant at explicit time before the order
\* in the time derivative.
C25_CheckOrder ==
    (IsAddCall(result) /\ Parsed(result)) =>
        LET K(t, variant, diff, cons, form) ==
                /\ variant.error # "none" => Raised(result, variant)
                /\ (variant.error = "none" /\ diff.error # "none") => Raised(result, diff)
                /\ (variant.error = "none" /\ diff.error = "none" /\ cons.error # "none") =>
                       Raised(result, cons)
                /\ (variant.error = "none" /\ diff.error = "none" /\ cons.error = "none"
                      /\ form.error # "none") =>
                       (IF result.op = "add_bc" THEN Raised(result, form)
                        ELSE result.stage # "check")
                /\ (variant.error = "none" /\ diff.error = "none" /\ cons.error = "none"
                      /\ form.error = "none") => result.stage # "check"
                /\ kind = "EVP" =>
                      /\ order(t.LHS, {Scalar(EigenvalueLabel)}) > 1 =>
                            (Unsupported(result, "must be first-order", "LHS")
                             /\ result.names = {EigenvalueLabel})
                      /\ (order(t.LHS, {Scalar(EigenvalueLabel)}) <= 1 /\ ~IsZero(t.RHS)) =>
                            Unsupported(result, "must be zero", "RHS")
                /\ kind = "IVP" =>
                      /\ has(t.LHS, {Scalar(TimeLabel)}) =>
                            (Unsupported(result, "must be independent", "LHS")
                             /\ result.names = {TimeLabel})
                      /\ (~has(t.LHS, {Scalar(TimeLabel)})
                           /\ order(t.LHS, {OpClass("d" \o TimeLabel)}) > 1) =>
                            (Unsupported(result, "must be first-order", "LHS")
                             /\ result.names = {"d" \o TimeLabel})
                /\ (kind = "LBVP" /\ has(t.RHS, {Field(x) : x \in SeqRange(variables)})) =>
                      Unsupported(result, "must be independent", "RHS")
                /\ (kind = "NLBVP" /\ order(t.LHS, {OpClass("dx")}) > 1) =>
                      (Unsupported(result, "must be first-order", "LHS")
                       /\ result.names = {"dx"})
        IN K(LastTemp(result),
             check_conditions(kind, LastTemp(result), cache.ns, variables),
             check_differential_order(LastTemp(result), bases),
             check_meta_consistency(LHSof(result), RHSof(result), meta, bases),
             check_boundary_form(LHSof(result), RHSof(result), meta, bases))

\* a boundary condition that breaks the variant condition, the coupled
\* differential order, the metadata rule and the boundary form at once
C25_Witness ==
    /\ result.op = "add_bc" /\ Parsed(result) /\ kind = "LBVP"
    /\ check_conditions(kind, LastTemp(result), cache.ns, variables).error # "none"
    /\ check_differential_order(LastTemp(result), bases).error # "none"
    /\ check_meta_consistency(LHSof(result), RHSof(result), meta, bases).error # "none"
    /\ check_boundary_form(LHSof(result), RHSof(result), meta, bases).error # "none"
    /\ Unsupported(result, "must be independent", "RHS")


\* the names of the sources of the namespace in the order of the build
VariantNames ==
    CASE kind = "IVP"   -> <<TimeLabel, "d" \o TimeLabel>>
      [] kind = "NLBVP" -> [i \in 1..Len(variables) |-> PertMarker \o variables[i]]
      [] kind = "EVP"   -> <<EigenvalueLabel>>
      [] OTHER          -> <<>>
SourceNames ==
    KeySeq([items |-> BasisBindings(bases)]) \o variables
    \o [i \in 1..Len(parameters) |-> parameters[i].key] \o Parseables
    \o [i \in 1..Len(substitutions) |-> substitutions[i].call] \o VariantNames

\* a sequence without the repetitions of its elements
RECURSIVE FirstOccurrences(_)
FirstOccurrences(seq) ==
    IF seq = <<>> THEN <<>>
    ELSE LET Rest(r) == IF seq[Len(seq)] \in SeqRange(r) THEN r
                        ELSE Append(r, seq[Len(seq)])
         IN  Rest(FirstOccurrences(SubSeq(seq, 1, Len(seq) - 1)))

\* the value of the last of grid/operator, variable, parameter, built-in
\* that supplies the name
BaseValue(key) ==
    IF key \in SeqRange(Parseables) THEN Builtin(key)
    ELSE IF \E i \in 1..Len(parameters) : parameters[i].key = key
    THEN CastParam(key, parameters[CHOOSE i \in 1..Len(parameters) :
                                      parameters[i].key = key].value)
    ELSE IF key \in SeqRange(variables) THEN Field(key)
    ELSE IF \E a \in 1..Len(bases) : bases[a].name = key THEN Grid(key)
    ELSE OpClass(key)

\* the value of the i-th substitution: a literal, or the value its body's
\* name has when the entry is reached
RECURSIVE SubValue(_)
SubValue(i) ==
    LET body == substitutions[i].body
        Earlier == {j \in 1..(i - 1) : substitutions[j].call = Name(body)}
    IN  IF Tag(body) = "lit" THEN Num(Name(body))
        ELSE IF Earlier # {} THEN SubValue(CHOOSE j \in Earlier : TRUE)
        ELSE BaseValue(Name(body))

VariantValue(key) ==
    CASE kind = "IVP"   -> IF key = TimeLabel THEN Scalar(key) ELSE OpClass(key)
      [] kind = "NLBVP" ->
            Pert(variables[CHOOSE i \in 1..Len(variables) : PertMarker \o variables[i] = key])
      [] OTHER          -> Scalar(key)

\* the value of the last source that supplies the name
LastSourceValue(key) ==
    IF key \in SeqRange(VariantNames) THEN VariantValue(key)
    ELSE IF \E i \in 1..Len(substitutions) : substitutions[i].call = key
    THEN SubValue(CHOOSE i \in 1..Len(substitutions) : substitutions[i].call = key)
    ELSE BaseValue(key)

Repeated(seq) == \E i, j \in 1..Len(seq) : i # j /\ seq[i] = seq[j]

C27_PerturbationsDisjoint ==
    (kind = "NLBVP" /\ cache.built) =>
        LET K(vs, ps) ==
                /\ SeqRange(vs) \cap SeqRange(ps) = {}
                /\ \A i \in 1..Len(variables) :
                      /\ vs[i] = Field(variables[i])
                      /\ ps[i] = Pert(variables[i])
        IN K(NsVars(cache.ns, variables), NsPerts(cache.ns, variables))


====
